---- MODULE Spec2Model ----
(***************************************************************************)
(* A model of the shai-hulud-killer scan engine (src/src/scanner.rs) with  *)
(* its rule tables (src/src/patterns.rs).                                  *)
(*                                                                         *)
(* The file system is a small tree of nodes.  A scan enumerates the tree   *)
(* (WalkDir + should_scan_entry), then analyses every enumerated file in   *)
(* a parallel fan-out (rayon par_iter): each file is one worker that       *)
(* bumps the atomic counter, invokes the progress callback, runs the       *)
(* checks and hands back its findings; the join builds the result.         *)
(*                                                                         *)
(* Abstractions: a text is a sequence of characters of which only the      *)
(* byte width and the whitespace class matter; which regex rules match a   *)
(* line is an attribute of the line; the SHA-256 digest of a file is an    *)
(* attribute of the file.                                                  *)
(***************************************************************************)
EXTENDS Integers, Sequences, FiniteSets, TLC

VARIABLES
    fs,             \* the directory tree on disk: node -> entry record
    config,         \* ScanConfig of the caller
    phase,          \* "idle" | "running" | "returned" | "panicked"
    on_progress,    \* the callback of the running scan: "noop" | "progress"
    scan_config,    \* the ScanConfig the running scan was handed
    scan_root,      \* the root the running scan was handed, as a node of fs
    entries,        \* enumerated file nodes (scanner.rs:74-79)
    total,          \* entries.len()
    processed,      \* the AtomicUsize counter
    pc,             \* per entry index: position of its closure: "queued" |
                    \*   "counted" | "notified" | "done" | "panicked" | "spinning"
    current,        \* per entry index: the closure's local `current`
    file_findings,  \* per entry index: the closure's returned Vec<Finding>
    calls,          \* every on_progress invocation so far: <<current, total, path>>
    scan_progress,  \* the observer's ScanProgress cell (app.rs:43-48)
    result,         \* what the scan returned
    history,        \* the runs of the engine that returned, in order: all of
                    \*   them in batch mode, those since the last start_scan
                    \*   in interactive mode
    stdout,         \* what batch mode has printed for the scan that returned
    fe_entry,       \* traversal policy on its own: the entry handed to it
    fe_config,      \*   the config handed to it
    fe_result,      \*   its verdict
    state,          \* App.state: "SelectFolder" | "Scanning" | "Results"
    should_quit,    \* App.should_quit
    ui,             \* the loop of run_app: "running" | "panicked" | "blocked"
    current_path,   \* App.current_path, as a node of fs
    app_entries,    \* App.entries: the listing of current_path
    selected_index, \* App.selected_index
    scroll_offset,  \* App.scroll_offset
    scan_results,   \* App.scan_results
    scan_path,      \* App.scan_path
    results_scroll, \* App.results_scroll
    selected_finding, \* App.selected_finding
    retired         \* where the earlier scan threads were in app.rs:197-214
                    \*   when the next one was spawned

vars == <<fs, config, phase, on_progress, scan_config, scan_root, entries, total,
          processed, pc, current, file_findings, calls, scan_progress,
          result, history, stdout, fe_entry, fe_config, fe_result,
          state, should_quit, ui, current_path, app_entries, selected_index,
          scroll_offset, scan_results, scan_path, results_scroll,
          selected_finding, retired>>

scanVars == <<fs, config, phase, on_progress, scan_config, scan_root, entries, total,
              processed, pc, current, file_findings, calls, scan_progress,
              result, history, stdout>>

appVars == <<state, should_quit, ui, current_path, app_entries, selected_index,
             scroll_offset, scan_results, scan_path, results_scroll,
             selected_finding, retired>>

filterVars == <<fe_entry, fe_config, fe_result>>

\* Option<T>: None, or Some(x)
None == <<>>
Some(x) == <<x>>

----------------------------------------------------------------------------
(* Bounds of the model *)

\* how many scans one behaviour runs one after the other
MaxRuns == 2

----------------------------------------------------------------------------
(* Rule registry: src/src/patterns.rs *)

MALICIOUS_FILES == {"setup_bun.js", "bun_environment.js"}

\* each SHA-256 hex digest as four chunks of 16 hex digits
MALICIOUS_HASHES ==
    { <<"62ee164b9b306250", "c1172583f138c961", "4139264f889fa996", "14903c12755468d0">>,
      <<"f099c5d9ec417d44", "45a0328ac0ada9cd", "e79fc37410914103", "ae9c609cbc0ee068">>,
      <<"cbb9bc5a8496243e", "02f3cc080efbe3e4", "a1430ba0671f2e43", "a202bf45b05479cd">>,
      <<"a3894003ad1d293b", "a96d77881ccd2071", "446dc3f65f434669", "b49b3da92421901a">> }

SKIP_DIRS == {".git", ".svn", ".hg", "vendor", "dist", "build", "__pycache__"}

DANGEROUS_HOOKS == <<"preinstall", "postinstall", "preuninstall", "install">>

SCANNABLE_EXTENSIONS == {"js", "ts", "mjs", "cjs", "json", "yaml", "yml", "sh"}

\* SUSPICIOUS_PATTERNS in table order: description and severity of each rule
SUSPICIOUS_PATTERNS ==
    << [description |-> "Shai-Hulud runner identifier",          severity |-> "Critical"],
       [description |-> "Shai-Hulud 2.0 marker string",          severity |-> "Critical"],
       [description |-> "Malicious setup file reference",        severity |-> "Critical"],
       [description |-> "Malicious environment file reference",  severity |-> "Critical"],
       [description |-> "Cloud secrets enumeration function",    severity |-> "Critical"],
       [description |-> "Malicious GitHub package functions",    severity |-> "Critical"],
       [description |-> "Suspicious GitHub automation",          severity |-> "High"],
       [description |-> "GitHub CLI token extraction",           severity |-> "High"],
       [description |-> "NPM config file access",                severity |-> "Medium"],
       [description |-> "NPM token reference",                   severity |-> "High"],
       [description |-> "GitHub token environment variable",     severity |-> "Medium"],
       [description |-> "Secret scanning tool reference",        severity |-> "High"],
       [description |-> "GitHub Actions runner config access",   severity |-> "High"],
       [description |-> "Suspicious workflow filename",          severity |-> "High"],
       [description |-> "Self-hosted runner configuration",      severity |-> "Medium"],
       [description |-> "Remote code execution via curl pipe",   severity |-> "High"],
       [description |-> "Remote code execution via wget pipe",   severity |-> "High"],
       [description |-> "AWS credentials file access",           severity |-> "High"],
       [description |-> "GCP credentials file access",           severity |-> "High"],
       [description |-> "Azure profile access",                  severity |-> "High"],
       [description |-> "Public npm publish command",            severity |-> "Medium"] >>

\* HOOK_PATTERNS in table order: the description of each rule
HOOK_PATTERNS ==
    << "Malicious setup script", "Malicious environment script",
       "Inline node code execution", "Piped curl command", "Piped wget command",
       "Eval code execution", "Dynamic function creation" >>

Severity == {"Critical", "High", "Medium", "Low"}

\* the compromised-package table: <<package, infected versions>> in table order
COMPROMISED_PACKAGES ==
    << <<"@ctrl/tinycolor", <<"4.1.1", "4.1.2">> >>,
       <<"left-pad",        <<"3.0.1">> >> >>

\* Some(infected versions) when the package is in the table
is_package_compromised(name) ==
    IF \E i \in DOMAIN COMPROMISED_PACKAGES : COMPROMISED_PACKAGES[i][1] = name
    THEN LET i == CHOOSE i \in DOMAIN COMPROMISED_PACKAGES :
                      COMPROMISED_PACKAGES[i][1] = name
         IN  Some(COMPROMISED_PACKAGES[i][2])
    ELSE None

\* Some(infected versions) when the package is in the table with that version
is_version_compromised(name, version) ==
    LET vs == is_package_compromised(name)
    IN  IF vs # None /\ \E k \in DOMAIN vs[1] : vs[1][k] = version THEN vs ELSE None

----------------------------------------------------------------------------
(* Texts.  A character is one of: "a" (one byte), " " (one byte of         *)
(* whitespace), "e2" (a two-byte character), "e3" (a three-byte one).      *)

Chars == {"a", " ", "e2", "e3"}

Width(c) == CASE c = "e2" -> 2 [] c = "e3" -> 3 [] OTHER -> 1

Rep(c, n) == [i \in 1..n |-> c]

\* str::len: the length in bytes
ByteLen(s) ==
    Len(s) + Cardinality({i \in DOMAIN s : s[i] = "e2"})
           + 2 * Cardinality({i \in DOMAIN s : s[i] = "e3"})

\* the number of leading characters of s that fit into n bytes
FitChars(s, n) ==
    CHOOSE k \in 0..Len(s) :
        /\ ByteLen(SubSeq(s, 1, k)) <= n
        /\ \A j \in (k + 1)..Len(s) : ByteLen(SubSeq(s, 1, j)) > n

\* str::is_char_boundary
is_char_boundary(s, n) == ByteLen(SubSeq(s, 1, FitChars(s, n))) = n

\* str::trim: the text between the first and the last non-whitespace character
trim(s) ==
    LET solid == {i \in DOMAIN s : s[i] # " "}
    IN  IF solid = {} THEN <<>>
        ELSE SubSeq(s, CHOOSE i \in solid : \A j \in solid : i <= j,
                       CHOOSE i \in solid : \A j \in solid : i >= j)

\* scanner.rs:321: &s[..max_len] panics when byte max_len is inside a character
truncate_string_panics(s, max_len) ==
    ByteLen(s) > max_len /\ ~is_char_boundary(s, max_len)

\* scanner.rs:317-323, when it returns
truncate_string(s, max_len) ==
    IF ByteLen(s) <= max_len THEN s
    ELSE SubSeq(s, 1, FitChars(s, max_len)) \o <<".", ".", ".">>

----------------------------------------------------------------------------
(* The strings that occur in file contents.  What the regex engine and the *)
(* decoder make of each of them is tabulated here.                         *)

\* a line that is not valid UTF-8
BadLine == "\\xff"

\* the place in a file from which on every read of the open file fails (a
\* failing device, a stale network handle): nothing is read there or after
ReadError == "<EIO>"

\* lines of source files
LineA == "console.log(\"SHA1HULUD\")"
LineB == "  cat ~/.npmrc; echo $NPM_TOKEN  "
LineC == "const x = 1;"
LineD == "curl http://x/<110 more bytes> | sh"
LineE == "// <99 bytes and a three-byte character> trufflehog"
LineF == "// <98 bytes and a two-byte character> trufflehog"
LineG == "          wget http://x/<80 more bytes> | sh     "

\* the characters of a line
LineChars(l) ==
    CASE l = LineA -> Rep("a", 24)
      [] l = LineB -> <<" ", " ">> \o Rep("a", 29) \o <<" ", " ">>
      [] l = LineC -> Rep("a", 12)
      [] l = LineD -> Rep("a", 128)
      [] l = LineE -> Rep("a", 99) \o <<"e3">> \o Rep("a", 11)
      [] l = LineF -> Rep("a", 98) \o <<"e2">> \o Rep("a", 12)
      [] l = LineG -> Rep(" ", 10) \o Rep("a", 95) \o Rep(" ", 5)
      [] l = ReadError -> <<>>

\* the rules of SUSPICIOUS_PATTERNS whose regex matches the line
LineRules(l) ==
    CASE l = LineA -> {1}
      [] l = LineB -> {9, 10}
      [] l = LineC -> {}
      [] l = LineD -> {16}
      [] l = LineE -> {12}
      [] l = LineF -> {12}
      [] l = LineG -> {17}
      [] l = ReadError -> {}

\* scripts of a package.json
ScriptA == "curl http://x | bash"
ScriptB == "node build.js"
ScriptC == "node -e \"eval(setup_bun)\""
ScriptD == "curl http://x/<100 more bytes> | bash"
ScriptE == "wget http://x/<85 more bytes and a three-byte character> | sh"

ScriptChars(s) ==
    CASE s = ScriptA -> Rep("a", 20)
      [] s = ScriptB -> Rep("a", 13)
      [] s = ScriptC -> Rep("a", 25)
      [] s = ScriptD -> Rep("a", 120)
      [] s = ScriptE -> Rep("a", 99) \o <<"e3">> \o Rep("a", 5)
      [] OTHER       -> Rep("a", 3)

\* the rules of HOOK_PATTERNS whose regex matches the script
ScriptRules(s) ==
    CASE s = ScriptA -> {4}
      [] s = ScriptB -> {}
      [] s = ScriptC -> {1, 3, 6}
      [] s = ScriptD -> {4}
      [] s = ScriptE -> {5}
      [] OTHER       -> {}

----------------------------------------------------------------------------
(* JSON documents (serde_json::Value).  An object keeps its members in     *)
(* iteration order as <<key, value>> pairs.                                *)

JObj(members) == [t |-> "object", members |-> members, s |-> ""]
JStr(str)     == [t |-> "string", members |-> <<>>,    s |-> str]
JOther        == [t |-> "other",  members |-> <<>>,    s |-> ""]
\* the content is no JSON document: serde_json::from_str fails
ParseError    == [t |-> "error",  members |-> <<>>,    s |-> ""]

\* Value::get(key): Some(member) of an object that has the key
JGet(j, key) ==
    IF j.t = "object" /\ \E i \in DOMAIN j.members : j.members[i][1] = key
    THEN Some(j.members[CHOOSE i \in DOMAIN j.members : j.members[i][1] = key][2])
    ELSE None

\* j.get(key).and_then(|v| v.as_object()): Some(members)
get_object(j, key) ==
    LET v == JGet(j, key)
    IN  IF v # None /\ v[1].t = "object" THEN Some(v[1].members) ELSE None

\* j.get(key).and_then(|v| v.as_str())
get_str(j, key) ==
    LET v == JGet(j, key)
    IN  IF v # None /\ v[1].t = "string" THEN Some(v[1].s) ELSE None

\* Option::unwrap_or
unwrap_or(opt, default) == IF opt # None THEN opt[1] ELSE default

\* key.strip_prefix("node_modules/").unwrap_or(key) on the keys of a packages map
strip_node_modules(key) ==
    CASE key = "node_modules/left-pad"        -> "left-pad"
      [] key = "node_modules/@ctrl/tinycolor" -> "@ctrl/tinycolor"
      [] key = "node_modules/lodash"          -> "lodash"
      [] OTHER                                -> key

----------------------------------------------------------------------------
(* The directory tree.  Node 1 is the root handed to the scan; the shape   *)
(* is fixed, what is at each place is chosen by Init.                      *)
(*        1 -+- 2 -+- 3 --- 4                                              *)
(*           |     +- 6                                                    *)
(*           +- 5                                                          *)

Nodes == 1..6

Parent(n) == CASE n = 2 -> 1 [] n = 3 -> 2 [] n = 4 -> 3 [] n = 5 -> 1 [] n = 6 -> 2
               [] OTHER -> 0

\* the children of a directory in the order read_dir yields them
Children(n) == CASE n = 1 -> <<2, 5>> [] n = 2 -> <<3, 6>> [] n = 3 -> <<4>>
                 [] OTHER -> <<>>

RECURSIVE Path(_)
\* the path of a node, as the sequence of its components from the root
Path(n) == IF Parent(n) = 0 THEN <<fs[n].name>> ELSE Path(Parent(n)) \o <<fs[n].name>>

\* Path::extension of the file names that occur
extension(name) ==
    CASE name \in {"setup_bun.js", "index.js"}          -> "js"
      [] name \in {"package.json", "package-lock.json"} -> "json"
      [] name = "pnpm-lock.yaml"                        -> "yaml"
      [] name = "yarn.lock"                             -> "lock"
      [] name = "notes.txt"                             -> "txt"
      [] OTHER                                          -> ""

\* a finding (scanner.rs:43-53)
Finding(path, finding_type, severity, description, line, context) ==
    [path |-> path, finding_type |-> finding_type, severity |-> severity,
     description |-> description, line |-> line, context |-> context]

RECURSIVE Flatten(_)
\* the concatenation of a sequence of sequences
Flatten(ss) == IF ss = <<>> THEN <<>> ELSE Head(ss) \o Flatten(Tail(ss))

RECURSIVE join(_)
\* versions.join(", ")
join(vs) == IF Len(vs) <= 1 THEN vs ELSE <<Head(vs), ", ">> \o join(Tail(vs))

\* the indices 1..n in order, kept where Keep holds
Matching(n, Keep(_)) == SelectSeq([k \in 1..n |-> k], Keep)

----------------------------------------------------------------------------
(* The checks of one file: scanner.rs:167-423.  n is the node at `path`.   *)

\* "Skip large files (> 1MB)": scanner.rs:222
MaxContentBytes == 1000000

\* the context cut: scanner.rs:241, 273
MaxContextLen == 100

\* fs::File::open succeeds
CanRead(n) == fs[n].data.readable

\* the reads of the open file fail from some place on
ReadStalls(n) == \E k \in DOMAIN fs[n].data.lines : fs[n].data.lines[k] = ReadError

\* fs::read succeeds: the file opens and is read to its end
CanReadAll(n) == CanRead(n) /\ ~ReadStalls(n)

\* fs::read_to_string succeeds: read to its end, and valid UTF-8 throughout
CanReadToString(n) ==
    CanReadAll(n) /\ \A k \in DOMAIN fs[n].data.lines : fs[n].data.lines[k] # BadLine

\* scanner.rs:167-182
check_filename(n) ==
    LET filename == fs[n].name
    IN  IF filename \in MALICIOUS_FILES
        THEN << Finding(Path(n), "MaliciousFile", "Critical",
                        <<"Known malicious file: ", filename>>, None, None) >>
        ELSE <<>>

\* the hash check attaching the digest as context
check_file_hash_with_context(n) ==
    IF MALICIOUS_HASHES = {} THEN <<>>
    ELSE IF ~CanReadAll(n) THEN <<>>
    ELSE LET hash == fs[n].data.sha256
         IN  IF hash \in MALICIOUS_HASHES
             THEN << Finding(Path(n), "MaliciousHash", "Critical",
                             <<"File matches known malicious hash: ", hash[1], "...">>,
                             None, Some(hash)) >>
             ELSE <<>>

\* scanner.rs:184-207
check_file_hash(n) ==
    IF MALICIOUS_HASHES = {} THEN <<>>
    ELSE IF ~CanReadAll(n) THEN <<>>
    ELSE LET hash == fs[n].data.sha256
         IN  IF hash \in MALICIOUS_HASHES
             THEN << Finding(Path(n), "MaliciousHash", "Critical",
                             <<"File matches known malicious hash: ", hash[1], "...">>,
                             None, None) >>
             ELSE <<>>

\* the size test written as >=: a file of exactly the limit is skipped too
content_lines_skips_at_limit(n) ==
    IF extension(fs[n].name) \notin SCANNABLE_EXTENSIONS THEN <<>>
    ELSE IF ~CanRead(n) THEN <<>>
    ELSE IF fs[n].data.size >= MaxContentBytes THEN <<>>
    ELSE fs[n].data.lines

\* the lines the content check gets to read: scanner.rs:210-225
content_lines(n) ==
    IF extension(fs[n].name) \notin SCANNABLE_EXTENSIONS THEN <<>>
    ELSE IF ~CanRead(n) THEN <<>>
    ELSE IF fs[n].data.size > MaxContentBytes THEN <<>>
    ELSE fs[n].data.lines

\* scanner.rs:230-245 for line number line_num (0-based, as enumerate counts)
line_findings(n, line_num, line) ==
    IF line = BadLine THEN <<>>
    ELSE LET rules == Matching(Len(SUSPICIOUS_PATTERNS), LAMBDA r : r \in LineRules(line))
         IN  [j \in 1..Len(rules) |->
                Finding(Path(n), "SuspiciousPattern",
                        SUSPICIOUS_PATTERNS[rules[j]].severity,
                        <<SUSPICIOUS_PATTERNS[rules[j]].description>>,
                        Some(line_num + 1),
                        Some(truncate_string(trim(LineChars(line)), MaxContextLen)))]

\* scanner.rs:209-248
check_file_content(n) ==
    LET lines == content_lines(n)
    IN  Flatten([k \in 1..Len(lines) |-> line_findings(n, k - 1, lines[k])])

\* scanner.rs:230-231: `let Ok(line) = line else { continue }` on a reader
\* whose read fails for good: lines() hands out the same Err again and again,
\* the loop never ends.  It gets there when no line before that place panics.
check_file_content_spins(n) ==
    \E k \in DOMAIN content_lines(n) :
        /\ content_lines(n)[k] = ReadError
        /\ \A j \in 1..(k - 1) :
             LET line == content_lines(n)[j]
             IN  ~(/\ line \notin {BadLine, ReadError}
                   /\ LineRules(line) # {}
                   /\ truncate_string_panics(trim(LineChars(line)), MaxContextLen))

\* scanner.rs:241 panics on some matching line
check_file_content_panics(n) ==
    /\ ~check_file_content_spins(n)
    /\ \E k \in DOMAIN content_lines(n) :
        LET line == content_lines(n)[k]
        IN  /\ line # BadLine
            /\ LineRules(line) # {}
            /\ truncate_string_panics(trim(LineChars(line)), MaxContextLen)

\* scanner.rs:262-279 for one hook name
hook_findings(n, scripts, hook) ==
    LET script == get_str(JObj(scripts), hook)
    IN  IF script = None THEN <<>>
        ELSE LET rules == Matching(Len(HOOK_PATTERNS),
                                   LAMBDA r : r \in ScriptRules(script[1]))
             IN  [j \in 1..Len(rules) |->
                    Finding(Path(n), "DangerousHook", "Critical",
                            <<HOOK_PATTERNS[rules[j]], " in '", hook, "' hook">>,
                            None,
                            Some(truncate_string(ScriptChars(script[1]), MaxContextLen)))]

\* the entry test with the `else` of scanner.rs:299 lost: a listed package is
\* reported as targeted whether or not its version is infected
dependency_findings_no_else(n, pkg_name, pkg_version) ==
    LET version == IF pkg_version.t = "string" THEN pkg_version.s ELSE "unknown"
        infected == is_version_compromised(pkg_name, version)
        targeted == is_package_compromised(pkg_name)
    IN  (IF infected # None
         THEN << Finding(Path(n), "CompromisedPackage", "Critical",
                         <<"INFECTED package: ", pkg_name, " @ ", version, " (Shai-Hulud 2.0)">>,
                         None,
                         Some(<<"Infected versions: ">> \o join(infected[1]))) >>
         ELSE <<>>)
        \o (IF targeted # None
            THEN << Finding(Path(n), "CompromisedPackage", "Medium",
                            <<"Package ", pkg_name, " was targeted (your version ", version,
                              " may be safe)">>,
                            None,
                            Some(<<"Infected versions: ">> \o join(targeted[1]))) >>
            ELSE <<>>)

\* scanner.rs:286-310 for one entry of a dependency section
dependency_findings(n, pkg_name, pkg_version) ==
    LET version == IF pkg_version.t = "string" THEN pkg_version.s ELSE "unknown"
        infected == is_version_compromised(pkg_name, version)
        targeted == is_package_compromised(pkg_name)
    IN  IF infected # None
        THEN << Finding(Path(n), "CompromisedPackage", "Critical",
                        <<"INFECTED package: ", pkg_name, " @ ", version, " (Shai-Hulud 2.0)">>,
                        None,
                        Some(<<"Infected versions: ">> \o join(infected[1]))) >>
        ELSE IF targeted # None
        THEN << Finding(Path(n), "CompromisedPackage", "Medium",
                        <<"Package ", pkg_name, " was targeted (your version ", version,
                          " may be safe)">>,
                        None,
                        Some(<<"Infected versions: ">> \o join(targeted[1]))) >>
        ELSE <<>>

\* scanner.rs:284-312 for one section
section_findings(n, json, section) ==
    LET deps == get_object(json, section)
    IN  IF deps = None THEN <<>>
        ELSE Flatten([i \in 1..Len(deps[1]) |->
                        dependency_findings(n, deps[1][i][1], deps[1][i][2])])

dep_sections == <<"dependencies", "devDependencies", "peerDependencies",
                  "optionalDependencies">>

\* scanner.rs:250-315
check_package_json(n) ==
    IF ~CanReadToString(n) THEN <<>>
    ELSE IF fs[n].data.json = ParseError THEN <<>>
    ELSE LET json    == fs[n].data.json
             scripts == get_object(json, "scripts")
             hooks   == IF scripts = None THEN <<>>
                        ELSE Flatten([h \in 1..Len(DANGEROUS_HOOKS) |->
                                        hook_findings(n, scripts[1], DANGEROUS_HOOKS[h])])
             deps    == Flatten([k \in 1..Len(dep_sections) |->
                                   section_findings(n, json, dep_sections[k])])
         IN  hooks \o deps

\* scanner.rs:273 panics on some matching hook script
check_package_json_panics(n) ==
    /\ CanReadToString(n)
    /\ fs[n].data.json # ParseError
    /\ LET scripts == get_object(fs[n].data.json, "scripts")
       IN  /\ scripts # None
           /\ \E h \in DOMAIN DANGEROUS_HOOKS :
                LET script == get_str(JObj(scripts[1]), DANGEROUS_HOOKS[h])
                IN  /\ script # None
                    /\ ScriptRules(script[1]) # {}
                    /\ truncate_string_panics(ScriptChars(script[1]), MaxContextLen)

\* the Critical finding of the lockfile checks: scanner.rs:350-357, 378-385, 408-415
lockfile_finding(path, pkg_name, version, infected_versions) ==
    Finding(path, "CompromisedPackage", "Critical",
            <<"INFECTED in lockfile: ", pkg_name, " @ ", version>>,
            None,
            Some(<<"Infected versions: ">> \o join(infected_versions)))

RECURSIVE check_npm_v6_deps_else_nested(_, _)
\* the walk descending only below entries it did not report
check_npm_v6_deps_else_nested(path, deps) ==
    Flatten([i \in 1..Len(deps) |->
        LET pkg_name == deps[i][1]
            pkg_info == deps[i][2]
            version  == unwrap_or(get_str(pkg_info, "version"), "unknown")
            infected == is_version_compromised(pkg_name, version)
            nested   == get_object(pkg_info, "dependencies")
        IN  IF infected # None
            THEN <<lockfile_finding(path, pkg_name, version, infected[1])>>
            ELSE IF nested # None THEN check_npm_v6_deps_else_nested(path, nested[1])
            ELSE <<>>])

RECURSIVE check_npm_v6_deps(_, _)
\* scanner.rs:396-423: the findings it pushes, in order
check_npm_v6_deps(path, deps) ==
    Flatten([i \in 1..Len(deps) |->
        LET pkg_name == deps[i][1]
            pkg_info == deps[i][2]
            version  == unwrap_or(get_str(pkg_info, "version"), "unknown")
            infected == is_version_compromised(pkg_name, version)
            nested   == get_object(pkg_info, "dependencies")
        IN  (IF infected # None
             THEN <<lockfile_finding(path, pkg_name, version, infected[1])>>
             ELSE <<>>)
            \o (IF nested # None THEN check_npm_v6_deps(path, nested[1]) ELSE <<>>)])

\* the packages loop with the `else if` of the manifest check copied in: a
\* listed package at another version is reported as targeted
package_entry_findings_targeted(n, pkg_path, pkg_info) ==
    LET pkg_name == strip_node_modules(pkg_path)
        version  == unwrap_or(get_str(pkg_info, "version"), "unknown")
        infected == is_version_compromised(pkg_name, version)
        targeted == is_package_compromised(pkg_name)
    IN  IF infected # None
        THEN <<lockfile_finding(Path(n), pkg_name, version, infected[1])>>
        ELSE IF targeted # None
        THEN << Finding(Path(n), "CompromisedPackage", "Medium",
                        <<"Package ", pkg_name, " was targeted (your version ", version,
                          " may be safe)">>,
                        None,
                        Some(<<"Infected versions: ">> \o join(targeted[1]))) >>
        ELSE <<>>

\* scanner.rs:337-360 for one entry of the packages map
package_entry_findings(n, pkg_path, pkg_info) ==
    LET pkg_name == strip_node_modules(pkg_path)
        version  == unwrap_or(get_str(pkg_info, "version"), "unknown")
        infected == is_version_compromised(pkg_name, version)
    IN  IF infected # None
        THEN <<lockfile_finding(Path(n), pkg_name, version, infected[1])>>
        ELSE <<>>

\* the characters of the names and versions that occur in lockfile texts
StrChars(str) ==
    CASE str = "left-pad"        -> <<"l", "e", "f", "t", "-", "p", "a", "d">>
      [] str = "@ctrl/tinycolor" -> <<"@", "c", "t", "r", "l", "/", "t", "i", "n", "y",
                                      "c", "o", "l", "o", "r">>
      [] str = "lodash"          -> <<"l", "o", "d", "a", "s", "h">>
      [] str = "3.0.1"           -> <<"3", ".", "0", ".", "1">>
      [] str = "3.0.10"          -> <<"3", ".", "0", ".", "1", "0">>
      [] str = "^3.0.1"          -> <<"^", "3", ".", "0", ".", "1">>
      [] str = "4.0.0"           -> <<"4", ".", "0", ".", "0">>
      [] str = "4.1.1"           -> <<"4", ".", "1", ".", "1">>
      [] str = "4.1.2"           -> <<"4", ".", "1", ".", "2">>
      [] str = "9.9.9"           -> <<"9", ".", "9", ".", "9">>

\* str::contains: the pattern occurs somewhere in the text
Contains(text, pattern) ==
    \E i \in 1..(Len(text) - Len(pattern) + 1) :
        SubSeq(text, i, i + Len(pattern) - 1) = pattern

\* scanner.rs:373: format!("{}@{}", pkg, version)
at_pattern(pkg, version) == StrChars(pkg) \o <<"@">> \o StrChars(version)

\* scanner.rs:374: format!("\"{}\":\n  version: \"{}\"", pkg, version)
pnpm_pattern(pkg, version) ==
    <<"\"">> \o StrChars(pkg)
    \o <<"\"", ":", "\n", " ", " ", "v", "e", "r", "s", "i", "o", "n", ":", " ", "\"">>
    \o StrChars(version) \o <<"\"">>

\* scanner.rs:369-390 for one (package, version) of the table: the first
\* pattern found pushes the finding and ends the search
text_findings(n, pkg, versions, version) ==
    IF \/ Contains(fs[n].data.text, at_pattern(pkg, version))
       \/ Contains(fs[n].data.text, pnpm_pattern(pkg, version))
    THEN <<lockfile_finding(Path(n), pkg, version, versions)>>
    ELSE <<>>

\* the lockfile check falling back to the text search when a
\* package-lock.json does not parse
check_lockfile_text_fallback(n) ==
    IF ~CanReadToString(n) THEN <<>>
    ELSE IF fs[n].name = "package-lock.json" /\ fs[n].data.json # ParseError
    THEN LET json     == fs[n].data.json
             packages == get_object(json, "packages")
             deps     == get_object(json, "dependencies")
         IN  (IF packages = None THEN <<>>
              ELSE Flatten([i \in 1..Len(packages[1]) |->
                      package_entry_findings(n, packages[1][i][1], packages[1][i][2])]))
             \o (IF deps = None THEN <<>> ELSE check_npm_v6_deps(Path(n), deps[1]))
    ELSE Flatten([i \in 1..Len(COMPROMISED_PACKAGES) |->
            Flatten([k \in 1..Len(COMPROMISED_PACKAGES[i][2]) |->
                text_findings(n, COMPROMISED_PACKAGES[i][1], COMPROMISED_PACKAGES[i][2],
                              COMPROMISED_PACKAGES[i][2][k])])])

\* scanner.rs:325-394
check_lockfile(n) ==
    IF ~CanReadToString(n) THEN <<>>
    ELSE IF fs[n].name = "package-lock.json"
    THEN IF fs[n].data.json = ParseError THEN <<>>
         ELSE LET json     == fs[n].data.json
                  packages == get_object(json, "packages")
                  deps     == get_object(json, "dependencies")
              IN  (IF packages = None THEN <<>>
                   ELSE Flatten([i \in 1..Len(packages[1]) |->
                           package_entry_findings(n, packages[1][i][1], packages[1][i][2])]))
                  \o (IF deps = None THEN <<>> ELSE check_npm_v6_deps(Path(n), deps[1]))
    ELSE Flatten([i \in 1..Len(COMPROMISED_PACKAGES) |->
            Flatten([k \in 1..Len(COMPROMISED_PACKAGES[i][2]) |->
                text_findings(n, COMPROMISED_PACKAGES[i][1], COMPROMISED_PACKAGES[i][2],
                              COMPROMISED_PACKAGES[i][2][k])])])

LockfileNames == {"package-lock.json", "yarn.lock", "pnpm-lock.yaml"}

\* the closure giving up on a file it cannot read, before any check
analyze_file_bails_on_read_error(n) ==
    IF ~CanRead(n) THEN <<>>
    ELSE check_filename(n) \o check_file_hash(n) \o check_file_content(n)
         \o (IF fs[n].name = "package.json" THEN check_package_json(n) ELSE <<>>)
         \o (IF fs[n].name \in LockfileNames THEN check_lockfile(n) ELSE <<>>)

\* the closure skipping the content check once the shared counter is full
analyze_file_reads_counter(n) ==
    check_filename(n) \o check_file_hash(n)
    \o (IF processed = total THEN <<>> ELSE check_file_content(n))
    \o (IF fs[n].name = "package.json" THEN check_package_json(n) ELSE <<>>)
    \o (IF fs[n].name \in LockfileNames THEN check_lockfile(n) ELSE <<>>)

\* the closure's file_findings: scanner.rs:94-115
analyze_file(n) ==
    check_filename(n) \o check_file_hash(n) \o check_file_content(n)
    \o (IF fs[n].name = "package.json" THEN check_package_json(n) ELSE <<>>)
    \o (IF fs[n].name \in LockfileNames THEN check_lockfile(n) ELSE <<>>)

\* the closure neither returns nor panics: its content check never ends
analyze_file_spins(n) == check_file_content_spins(n)

\* the closure panics instead of returning
analyze_file_panics(n) ==
    \/ check_file_content_panics(n)
    \/ fs[n].name = "package.json" /\ check_package_json_panics(n)

----------------------------------------------------------------------------
(* Traversal: scanner.rs:74-79 and 152-165 *)

\* should_scan_entry with the node_modules test lost: only SKIP_DIRS is consulted
should_scan_entry_ignores_config(entry, cfg) ==
    IF entry.file_type = "dir" THEN entry.name \notin SKIP_DIRS ELSE TRUE

\* should_scan_entry with the is_dir test lost: names are tested for every entry
should_scan_entry_ignores_type(entry, cfg) ==
    IF ~cfg.include_node_modules /\ entry.name = "node_modules" THEN FALSE
    ELSE IF entry.name \in SKIP_DIRS THEN FALSE
    ELSE TRUE

\* scanner.rs:152-165.  entry.file_type does not follow symlinks.
should_scan_entry(entry, cfg) ==
    IF entry.file_type = "dir"
    THEN IF ~cfg.include_node_modules /\ entry.name = "node_modules" THEN FALSE
         ELSE IF entry.name \in SKIP_DIRS THEN FALSE
         ELSE TRUE
    ELSE TRUE

\* the walkdir::DirEntry of a node
DirEntry(n) == [file_type |-> fs[n].kind, name |-> fs[n].name]

\* Path::is_file, which follows symlinks
is_file(n) ==
    \/ fs[n].kind = "file"
    \/ fs[n].kind = "symlink" /\ fs[n].target = "file"

RECURSIVE Walk(_, _)
\* WalkDir from node n through filter_entry, errors dropped, files kept, in
\* walk order.  A rejected entry is neither yielded nor descended into; a
\* missing root and an unreadable directory yield an error item, which
\* filter_map(|e| e.ok()) drops; symlinks are not followed into.
Walk(n, cfg) ==
    IF fs[n].kind = "absent" THEN <<>>
    ELSE IF ~should_scan_entry(DirEntry(n), cfg) THEN <<>>
    ELSE (IF is_file(n) THEN <<n>> ELSE <<>>)
         \o (IF fs[n].kind = "dir" /\ fs[n].data.readable
             THEN Flatten([k \in 1..Len(Children(n)) |-> Walk(Children(n)[k], cfg)])
             ELSE <<>>)

----------------------------------------------------------------------------
(* The scan: scanner.rs:68-150 *)

\* findings.iter().filter(|f| f.severity == sev).count()
count_severity(findings, sev) == Len(SelectSeq(findings, LAMBDA f : f.severity = sev))

\* make_summary with the medium counter filtering on High (a copied filter)
make_summary_copied_filter(findings) ==
    [total    |-> Len(findings),
     critical |-> count_severity(findings, "Critical"),
     high     |-> count_severity(findings, "High"),
     medium   |-> count_severity(findings, "High"),
     low      |-> count_severity(findings, "Low")]

\* scanner.rs:119-137
make_summary(findings) ==
    [total    |-> Len(findings),
     critical |-> count_severity(findings, "Critical"),
     high     |-> count_severity(findings, "High"),
     medium   |-> count_severity(findings, "Medium"),
     low      |-> count_severity(findings, "Low")]

\* scanner.rs:84-117, 139-144: the collect of the per-file lists, in the order
\* of the entries, and the Ok(ScanResults) built from it
make_results(lists, n_total, path) ==
    LET findings == Flatten(lists)
    IN  [tag |-> "Ok", findings |-> findings, summary |-> make_summary(findings),
         scanned_files |-> n_total, scan_path |-> path]

\* scan_directory_sync handing on ScanConfig::default() instead of its argument
scan_directory_sync_default_config(root, cfg) ==
    [path |-> root, config |-> [include_node_modules |-> FALSE], on_progress |-> "noop"]

\* scanner.rs:148-150: what scan_directory_sync hands to scan_directory_with_progress
scan_directory_sync(root, cfg) == [path |-> root, config |-> cfg, on_progress |-> "noop"]

\* the scan thread building its own default ScanConfig
scan_thread_default_config(root, cfg) ==
    [path |-> root, config |-> [include_node_modules |-> FALSE], on_progress |-> "progress"]

\* app.rs:191-207: what the scan thread hands to scan_directory_with_progress
scan_thread(root, cfg) == [path |-> root, config |-> cfg, on_progress |-> "progress"]

\* Severity::as_str: patterns.rs:157-165
as_str(sev) ==
    CASE sev = "Critical" -> "CRITICAL"
      [] sev = "High"     -> "HIGH"
      [] sev = "Medium"   -> "MEDIUM"
      [] sev = "Low"      -> "LOW"

\* JSON values that only the output holds
JArr(items) == [t |-> "array",  members |-> items, s |-> ""]
JNum(n)     == [t |-> "number", members |-> <<n>>, s |-> ""]

\* #[derive(Serialize)] on Severity (patterns.rs:149-155): serde writes a unit
\* variant as a string holding the variant's name
serialize_severity(sev) ==
    JStr(CASE sev = "Critical" -> "Critical"
           [] sev = "High"     -> "High"
           [] sev = "Medium"   -> "Medium"
           [] sev = "Low"      -> "Low")

\* #[derive(Serialize)] on Finding (scanner.rs:42-53): the fields in declaration
\* order, line and context left out when they are None
serialize_finding(f) ==
    JObj(<< <<"path",         JStr(f.path)>>,
            <<"finding_type", JStr(f.finding_type)>>,
            <<"severity",     serialize_severity(f.severity)>>,
            <<"description",  JStr(f.description)>> >>
         \o (IF f.line = None THEN <<>> ELSE << <<"line", JNum(f.line[1])>> >>)
         \o (IF f.context = None THEN <<>> ELSE << <<"context", JStr(f.context[1])>> >>))

\* #[derive(Serialize)] on Summary (scanner.rs:33-40)
serialize_summary(sm) ==
    JObj(<< <<"total", JNum(sm.total)>>, <<"critical", JNum(sm.critical)>>,
            <<"high", JNum(sm.high)>>, <<"medium", JNum(sm.medium)>>,
            <<"low", JNum(sm.low)>> >>)

\* serde_json::to_string_pretty(&results): the document written (scanner.rs:25-31)
to_string_pretty(r) ==
    JObj(<< <<"findings", JArr([i \in DOMAIN r.findings |-> serialize_finding(r.findings[i])])>>,
            <<"summary", serialize_summary(r.summary)>>,
            <<"scanned_files", JNum(r.scanned_files)>>,
            <<"scan_path", JStr(r.scan_path)>> >>)

\* ScanProgress::default(): app.rs:42-48
ScanProgressDefault == [current |-> 0, total |-> 0, current_file |-> <<>>, finished |-> FALSE]

\* the callback of the scan thread: app.rs:199-205
progress_callback(p, cur, tot, file) ==
    [p EXCEPT !.current = cur, !.total = tot, !.current_file = file]

\* `current` without the + 1: the value fetch_add returned
progress_number_zero_based(previous) == previous

\* collect returning as soon as no entry is left in the queue
all_joined_none_queued(positions) == \A i \in DOMAIN positions : positions[i] # "queued"

\* scanner.rs:91: `current`, from the value fetch_add returned
progress_number(previous) == previous + 1

\* scanner.rs:84-117: collect returns once the closure of every entry has returned
all_joined(positions) == \A i \in DOMAIN positions : positions[i] = "done"

\* scanner.rs:74-82: scan_directory_with_progress is entered
Enter(args) ==
    /\ LET es == Walk(args.path, args.config)
       IN  /\ entries' = es
           /\ total' = Len(es)
           /\ pc' = [i \in 1..Len(es) |-> "queued"]
           /\ current' = [i \in 1..Len(es) |-> 0]
           /\ file_findings' = [i \in 1..Len(es) |-> <<>>]
    /\ scan_config' = args.config
    /\ scan_root' = args.path
    /\ on_progress' = args.on_progress
    /\ processed' = 0
    /\ calls' = <<>>
    /\ result' = None
    /\ phase' = "running"
    /\ stdout' = None
    /\ UNCHANGED <<fs, config, filterVars>>

\* main.rs:36-41: batch mode
CallSync ==
    /\ phase \in {"idle", "returned"}
    /\ Len(history) < MaxRuns
    /\ Enter(scan_directory_sync(1, config))
    /\ UNCHANGED <<scan_progress, history, appVars>>

\* app.rs:183-207: the progress cell is reset and the scan thread started
CallWithProgress ==
    /\ phase \in {"idle", "returned"}
    /\ Len(history) < MaxRuns
    /\ Enter(scan_thread(1, config))
    /\ scan_progress' = ScanProgressDefault
    /\ UNCHANGED <<history, appVars>>

\* scanner.rs:91: a worker takes entry i and bumps the counter
FetchAdd(i) ==
    /\ phase = "running"
    /\ pc[i] = "queued"
    /\ processed' = processed + 1
    /\ current' = [current EXCEPT ![i] = progress_number(processed)]
    /\ pc' = [pc EXCEPT ![i] = "counted"]
    /\ UNCHANGED <<fs, config, phase, on_progress, scan_config, scan_root, entries, total,
                   file_findings, calls, scan_progress, result, history, stdout,
                   filterVars, appVars>>

\* scanner.rs:92: on_progress(current, total, path)
Notify(i) ==
    /\ phase = "running"
    /\ pc[i] = "counted"
    /\ calls' = Append(calls, <<current[i], total, Path(entries[i])>>)
    /\ scan_progress' = IF on_progress = "progress"
                        THEN progress_callback(scan_progress, current[i], total,
                                               Path(entries[i]))
                        ELSE scan_progress
    /\ pc' = [pc EXCEPT ![i] = "notified"]
    /\ UNCHANGED <<fs, config, phase, on_progress, scan_config, scan_root, entries, total,
                   processed, current, file_findings, result, history, stdout,
                   filterVars, appVars>>

\* scanner.rs:94-115: the checks of entry i
Analyze(i) ==
    /\ phase = "running"
    /\ pc[i] = "notified"
    /\ IF analyze_file_spins(entries[i])
       THEN /\ pc' = [pc EXCEPT ![i] = "spinning"]
            /\ UNCHANGED file_findings
       ELSE IF analyze_file_panics(entries[i])
       THEN /\ pc' = [pc EXCEPT ![i] = "panicked"]
            /\ UNCHANGED file_findings
       ELSE /\ pc' = [pc EXCEPT ![i] = "done"]
            /\ file_findings' = [file_findings EXCEPT ![i] = analyze_file(entries[i])]
    /\ UNCHANGED <<fs, config, phase, on_progress, scan_config, scan_root, entries, total,
                   processed, current, calls, scan_progress, result, history, stdout,
                   filterVars, appVars>>

\* scanner.rs:117-144: every closure has returned; collect, summary, Ok
Join ==
    /\ phase = "running"
    /\ all_joined(pc)
    /\ result' = Some(make_results(file_findings, total, Path(scan_root)))
    /\ history' = Append(history, [on_progress |-> on_progress, config |-> scan_config,
                                   path |-> scan_root,
                                   result |-> make_results(file_findings, total, Path(scan_root))])
    /\ phase' = "returned"
    /\ UNCHANGED <<fs, config, on_progress, scan_config, scan_root, entries, total, processed,
                   pc, current, file_findings, calls, scan_progress, stdout,
                   filterVars, appVars>>

\* a closure panicked: rayon resumes the panic in the caller instead of returning
Unwind ==
    /\ phase = "running"
    /\ \E i \in DOMAIN pc : pc[i] = "panicked"
    /\ phase' = "panicked"
    /\ UNCHANGED <<fs, config, on_progress, scan_config, scan_root, entries, total, processed,
                   pc, current, file_findings, calls, scan_progress, result, history,
                   stdout, filterVars, appVars>>

\* main.rs:40-41: batch mode prints the result of the scan that returned
PrintJson ==
    /\ phase = "returned"
    /\ on_progress = "noop"
    /\ stdout = None
    /\ stdout' = Some(to_string_pretty(result[1]))
    /\ UNCHANGED <<fs, config, phase, on_progress, scan_config, scan_root, entries, total,
                   processed, pc, current, file_findings, calls, scan_progress,
                   result, history, filterVars, appVars>>

----------------------------------------------------------------------------
(* What the tree may hold *)

CleanHash == <<"0123456789abcdef", "0123456789abcdef", "0123456789abcdef", "0123456789abcdef">>
BadHash   == <<"62ee164b9b306250", "c1172583f138c961", "4139264f889fa996", "14903c12755468d0">>

\* what a file holds: lines is the content as BufRead::lines yields it, json
\* what serde_json makes of it, text its characters where substrings matter
Data(readable, size, sha256, lines, json, text) ==
    [readable |-> readable, size |-> size, sha256 |-> sha256, lines |-> lines,
     json |-> json, text |-> text]

NoData == Data(TRUE, 0, CleanHash, <<>>, ParseError, <<>>)

Absent          == [kind |-> "absent",  name |-> "",   target |-> "none", data |-> NoData]
Dir(name)       == [kind |-> "dir",     name |-> name, target |-> "none", data |-> NoData]
\* a directory whose read_dir fails
LockedDir(name) == [kind |-> "dir",     name |-> name, target |-> "none",
                    data |-> [NoData EXCEPT !.readable = FALSE]]
File(name, d)   == [kind |-> "file",    name |-> name, target |-> "none", data |-> d]
DirLink(name)   == [kind |-> "symlink", name |-> name, target |-> "dir",  data |-> NoData]

\* a dropper nobody may read
FileUnreadable == File("setup_bun.js", Data(FALSE, 300, BadHash, <<LineA>>, ParseError, <<>>))

\* a source file with a known digest, three matching rules and a broken line
FileInfected == File("index.js",
                     Data(TRUE, 300, BadHash, <<LineA, BadLine, LineB>>, ParseError, <<>>))

\* a source file one byte over the content limit
FileBig == File("index.js", Data(TRUE, MaxContentBytes + 1, CleanHash, <<LineA>>, ParseError, <<>>))

\* a dropper one byte over the content limit
FileBigDropper ==
    File("setup_bun.js", Data(TRUE, MaxContentBytes + 1, CleanHash, <<LineA>>, ParseError, <<>>))

\* a source file of exactly the content limit with a long matching line
FileLimit == File("index.js", Data(TRUE, MaxContentBytes, CleanHash, <<LineC, LineD>>, ParseError, <<>>))

\* a source file whose matching line has a character across byte 100
FileWide == File("index.js", Data(TRUE, 300, CleanHash, <<LineE>>, ParseError, <<>>))

\* a file that carries the name of a skipped directory
FileNamedDist == File("dist", Data(TRUE, 300, BadHash, <<LineA>>, ParseError, <<>>))

ManifestJson ==
    JObj(<< <<"dependencies", JObj(<< <<"left-pad", JStr("3.0.1")>>,
                                      <<"lodash",   JStr("4.0.0")>> >>)>>,
            <<"devDependencies", JObj(<< <<"@ctrl/tinycolor", JStr("^4.1.1")>> >>)>>,
            <<"scripts", JObj(<< <<"build",       JStr(ScriptC)>>,
                                 <<"postinstall", JStr(ScriptA)>>,
                                 <<"preinstall",  JOther>> >>)>> >>)

\* a manifest with a dangerous hook, an infected and a targeted dependency
FileManifest == File("package.json",
                     Data(TRUE, 300, CleanHash, <<LineC>>, ManifestJson, <<>>))

\* a manifest that is not valid UTF-8 but has a matching line
FileManifestBroken == File("package.json",
                           Data(TRUE, 300, CleanHash, <<LineB, BadLine>>, ParseError, <<>>))

LockJson ==
    JObj(<< <<"dependencies",
              JObj(<< <<"a", JObj(<< <<"dependencies",
                                       JObj(<< <<"@ctrl/tinycolor",
                                                 JObj(<< <<"version", JStr("4.1.2")>> >>)>> >>)>>,
                                     <<"version", JStr("1.0.0")>> >>)>> >>)>>,
            <<"packages",
              JObj(<< <<"", JObj(<< <<"name", JStr("proj")>> >>)>>,
                      <<"node_modules/left-pad", JObj(<< <<"version", JStr("3.0.1")>> >>)>>,
                      <<"node_modules/lodash",   JObj(<< <<"version", JStr("4.0.0")>> >>)>> >>)>> >>)

\* an npm lockfile with an infected package in each of its two sections
FileLock == File("package-lock.json", Data(TRUE, 300, CleanHash, <<LineC>>, LockJson, <<>>))

\* an entry of a yarn.lock: the package and the range asked for, then the
\* version recorded for it
yarn_entry(pkg, range, version) ==
    StrChars(pkg) \o <<"@">> \o StrChars(range)
    \o <<":", "\n", " ", " ", "v", "e", "r", "s", "i", "o", "n", " ", "\"">>
    \o StrChars(version) \o <<"\"", "\n">>

\* an entry of a pnpm-lock.yaml in the form scanner.rs:374 looks for
pnpm_entry(pkg, version) ==
    <<" ", " ">> \o pnpm_pattern(pkg, version) \o <<"\n">>

TextFile(name, text) == File(name, Data(TRUE, 300, CleanHash, <<LineC>>, ParseError, text))

\* a yarn lockfile whose text holds left-pad@3.0.1
FileYarn == TextFile("yarn.lock", yarn_entry("left-pad", "3.0.1", "3.0.1"))

RootNames == {"proj", "node_modules", "dist"}

MakeTree(n1, n2, n3, n4, n5, n6) ==
    [n \in Nodes |-> CASE n = 1 -> n1 [] n = 2 -> n2 [] n = 3 -> n3
                       [] n = 4 -> n4 [] n = 5 -> n5 [] n = 6 -> n6]

\* the number of files in a tree
NumFiles(t) == Cardinality({n \in Nodes : t[n].kind = "file"})

\* trees that differ in where directories of which name are
TraversalTrees ==
    { MakeTree(Dir(root), n2, Absent, Absent, n5, Absent) :
        root \in RootNames,
        n2 \in {Absent, FileNamedDist, DirLink("node_modules")},
        n5 \in {Absent, FileManifest} }
    \cup
    { MakeTree(Dir(root), Dir(name), n3, FileInfected, n5, Absent) :
        root \in RootNames,
        name \in {"node_modules", "src", "dist"},
        n3 \in {Dir("node_modules"), Dir("lib"), LockedDir("lib")},
        n5 \in {Absent, FileManifest} }

\* node 3 and below, in a project without skipped directories
Sub3 == { <<Absent, Absent>>, <<FileBig, Absent>>, <<FileLimit, Absent>>,
          <<Dir("lib"), FileInfected>>, <<Dir("lib"), FileWide>> }

\* trees that differ in what their files hold, of at most two files
ContentTrees ==
    { t \in { MakeTree(Dir("proj"), Dir("src"), s3[1], s3[2], n5, n6) :
                s3 \in Sub3,
                n5 \in {Absent, FileManifest, FileManifestBroken, FileYarn},
                n6 \in {Absent, FileUnreadable, FileLock} } :
        NumFiles(t) <= 2 }

\* a tree of three files, one of them below node_modules
ThreeFiles ==
    MakeTree(Dir("proj"), Dir("node_modules"), Dir("lib"), FileInfected,
             FileManifestBroken, FileUnreadable)

\* nothing but the root: a single file, or nothing at all
RootOnly(n1) == MakeTree(n1, Absent, Absent, Absent, Absent, Absent)

\* the trees a scan is run on
Trees ==
    TraversalTrees \cup ContentTrees \cup {ThreeFiles}
    \cup {RootOnly(FileInfected), RootOnly([Absent EXCEPT !.name = "gone"])}

----------------------------------------------------------------------------
(* Files for the checks of one file.  Objects list their members in key    *)
(* order, as serde_json's map iterates them.                               *)

\* how deep the dependencies of a legacy lockfile nest
MaxDepth == 3

Manifest(json) == File("package.json", Data(TRUE, 300, CleanHash, <<LineC>>, json, <<>>))

DepNames == {"@ctrl/tinycolor", "left-pad", "lodash"}

DepVersions == {JStr("3.0.1"), JStr("4.1.1"), JStr("^3.0.1"), JStr("9.9.9"), JOther}

SectionNames == {dep_sections[k] : k \in DOMAIN dep_sections} \cup {"bundledDependencies"}

\* manifests of one section with one entry
OneSection ==
    { JObj(<< <<section, JObj(<< <<name, v>> >>)>> >>) :
        section \in SectionNames, name \in DepNames, v \in DepVersions }

\* manifests that declare left-pad in two sections
TwoSections ==
    { JObj(<< <<"dependencies",    JObj(<< <<"left-pad", v1>> >>)>>,
              <<"devDependencies", JObj(<< <<"left-pad", v2>> >>)>> >>) :
        v1 \in {JStr("3.0.1"), JStr("9.9.9"), JOther},
        v2 \in {JStr("3.0.1"), JStr("9.9.9"), JOther} }

\* manifests with two entries in one section
TwoEntries ==
    { JObj(<< <<"peerDependencies", JObj(<< <<"@ctrl/tinycolor", v1>>,
                                            <<"left-pad", v2>> >>)>> >>) :
        v1 \in {JStr("3.0.1"), JStr("4.1.1"), JStr("9.9.9")},
        v2 \in {JStr("3.0.1"), JStr("4.1.1"), JStr("9.9.9")} }

\* a section that is no object, a document that is no object, an empty one,
\* a long hook script, and the manifest of the trees above
OddManifests ==
    { JObj(<< <<"dependencies", JStr("left-pad")>> >>), JOther, JObj(<<>>),
      JObj(<< <<"optionalDependencies", JObj(<< <<"left-pad", JStr("3.0.1")>> >>)>>,
              <<"scripts", JObj(<< <<"install", JStr(ScriptD)>> >>)>> >>),
      ManifestJson }

\* manifests that differ in their scripts: one script under a hook name or
\* another name, a value that is no string, two hooks, a scripts member that
\* is no object
HookManifests ==
    { JObj(<< <<"scripts", JObj(<< <<name, v>> >>)>> >>) :
        name \in {DANGEROUS_HOOKS[h] : h \in DOMAIN DANGEROUS_HOOKS} \cup {"build", "prepare"},
        v \in {JStr(ScriptA), JStr(ScriptB), JStr(ScriptC), JStr(ScriptD), JStr(ScriptE),
               JOther} }
    \cup { JObj(<< <<"scripts", JObj(<< <<"install", JStr(s1)>>,
                                        <<"preinstall", JStr(s2)>> >>)>> >>) :
             s1 \in {ScriptA, ScriptB, ScriptC}, s2 \in {ScriptA, ScriptC} }
    \cup { JObj(<< <<"scripts", JStr(ScriptA)>> >>),
           JObj(<< <<"scripts", JOther>>, <<"postinstall", JStr(ScriptA)>> >>) }

ManifestFiles ==
    { Manifest(j) : j \in OneSection \cup TwoSections \cup TwoEntries \cup OddManifests }

\* a manifest serde_json cannot parse, with a matching line
FileManifestMalformed ==
    File("package.json", Data(TRUE, 300, CleanHash, <<LineB>>, ParseError, <<>>))

\* the object recorded for one package of a lockfile
PkgInfo(version, nested) ==
    JObj((IF nested = None THEN <<>> ELSE << <<"dependencies", nested[1]>> >>)
         \o (IF version = None THEN <<>> ELSE << <<"version", version[1]>> >>))

\* a package-lock.json document
LockDoc(deps, packages) ==
    JObj((IF deps = None THEN <<>> ELSE << <<"dependencies", deps[1]>> >>)
         \o (IF packages = None THEN <<>> ELSE << <<"packages", packages[1]>> >>))

LockNames == {"left-pad", "lodash"}

LockVersions == {"3.0.1", "9.9.9"}

RECURSIVE DepChains(_)
\* legacy dependencies objects of one entry each, nested up to d deep
DepChains(d) ==
    IF d = 1
    THEN { JObj(<< <<name, PkgInfo(Some(JStr(v)), None)>> >>) :
             name \in LockNames, v \in LockVersions }
    ELSE LET below == DepChains(d - 1)
         IN  below \cup { JObj(<< <<name, PkgInfo(Some(JStr(v)), Some(b))>> >>) :
                             name \in LockNames, v \in LockVersions, b \in below }

\* legacy dependencies objects of two entries, each with nested entries
DepSiblings ==
    { JObj(<< <<"left-pad", PkgInfo(Some(JStr("3.0.1")), Some(b1))>>,
              <<"lodash",   PkgInfo(None, Some(b2))>> >>) :
        b1 \in DepChains(1), b2 \in DepChains(1) }

\* entries that are no object, or whose dependencies are no object
DepOdd ==
    { JObj(<< <<"left-pad", JStr("3.0.1")>> >>),
      JObj(<< <<"left-pad", PkgInfo(Some(JStr("3.0.1")), Some(JStr("lodash")))>> >>),
      JObj(<< <<"left-pad", PkgInfo(Some(JOther), Some(JObj(<<>>)))>> >>) }

PkgKeys == {"", "left-pad", "node_modules/@ctrl/tinycolor", "node_modules/left-pad",
            "node_modules/lodash"}

PkgVersions == {None, Some(JOther), Some(JStr("3.0.1")), Some(JStr("4.1.2")),
                Some(JStr("9.9.9"))}

\* packages maps of one entry
PackagesOne == { JObj(<< <<key, PkgInfo(v, None)>> >>) : key \in PkgKeys, v \in PkgVersions }

\* a lockfile of both formats at once, as npm 7 writes it (lockfileVersion 2)
\* for a project that resolved left-pad
LockBoth(v6, v7) ==
    LockDoc(Some(JObj(<< <<"left-pad", PkgInfo(Some(JStr(v6)), None)>> >>)),
            Some(JObj(<< <<"", PkgInfo(None, None)>>,
                         <<"node_modules/left-pad", PkgInfo(v7, None)>> >>)))

LockDocs ==
    { LockDoc(None, Some(p)) : p \in PackagesOne }
    \cup { LockBoth(v6, v7) : v6 \in LockVersions, v7 \in PkgVersions }
    \cup { LockDoc(Some(d), None) : d \in DepChains(MaxDepth) \cup DepSiblings \cup DepOdd }
    \cup { LockDoc(Some(JStr("left-pad")), Some(JStr("left-pad"))), JOther, LockJson }

LockFileOf(json) ==
    File("package-lock.json", Data(TRUE, 300, CleanHash, <<LineC>>, json, <<>>))

\* a package-lock.json serde_json cannot parse, whose text names left-pad@3.0.1
FileLockMalformed ==
    File("package-lock.json",
         Data(TRUE, 300, CleanHash, <<LineA>>, ParseError, at_pattern("left-pad", "3.0.1")))

\* the texts of yarn and pnpm lockfiles
LockTexts ==
    { yarn_entry(pkg, rv[1], rv[2]) :
        pkg \in DepNames,
        rv \in { <<"3.0.1", "3.0.1">>, <<"3.0.10", "3.0.10">>, <<"^3.0.1", "3.0.1">>,
                 <<"4.1.2", "4.1.2">> } }
    \cup { pnpm_entry(pkg, v) : pkg \in DepNames, v \in {"3.0.1", "3.0.10", "4.1.1"} }
    \cup { yarn_entry("left-pad", "3.0.1", "3.0.1") \o pnpm_entry("left-pad", "3.0.1"),
           yarn_entry("@ctrl/tinycolor", "4.1.1", "4.1.1")
             \o yarn_entry("@ctrl/tinycolor", "4.1.2", "4.1.2"),
           <<>> }

TextLockFiles == { TextFile(name, text) : name \in {"yarn.lock", "pnpm-lock.yaml"},
                                           text \in LockTexts }

\* the lines of source files: one line, two lines, and some of three
ContentLines ==
    { <<l>> : l \in {LineA, LineB, LineC, LineD, LineE, LineF, LineG, BadLine} }
    \cup { <<l1, l2>> : l1 \in {LineA, LineB, LineC, BadLine},
                        l2 \in {LineA, LineB, LineC, BadLine} }
    \cup { <<LineA, BadLine, LineB>>, <<BadLine, BadLine, LineA>>, <<LineA, LineA, LineA>>,
           <<LineC, LineD, LineA>>, <<LineB, LineE, LineA>> }

ContentFiles ==
    { File(name, Data(TRUE, size, CleanHash, lines, ParseError, <<>>)) :
        name \in {"index.js", "notes.txt"},
        size \in {300, MaxContentBytes, MaxContentBytes + 1},
        lines \in ContentLines }

\* one file in a project directory
OneFile(f) == MakeTree(Dir("proj"), f, Absent, Absent, Absent, Absent)

\* two files side by side
TwoFiles(f, g) == MakeTree(Dir("proj"), f, Absent, Absent, g, Absent)

\* a source file on a device that fails the reads after its first line
FileStalled == File("index.js",
                    Data(TRUE, 300, CleanHash, <<LineA, ReadError>>, ParseError, <<>>))

FileTrees ==
    { OneFile(f) : f \in ManifestFiles \cup { Manifest(j) : j \in HookManifests }
                          \cup { LockFileOf(j) : j \in LockDocs }
                          \cup TextLockFiles \cup ContentFiles
                          \cup {FileManifestMalformed, FileLockMalformed, FileManifestBroken,
                                FileUnreadable, FileStalled} }
    \cup { TwoFiles(LockFileOf(LockBoth("9.9.9", Some(JStr("3.0.1")))), Manifest(j)) :
             j \in { JObj(<< <<"dependencies", JObj(<< <<"left-pad", v>> >>)>> >>) :
                       v \in {JStr("3.0.1"), JStr("9.9.9")} } }
    \cup { TwoFiles(FileManifestMalformed, g) : g \in {FileInfected, FileLock} }
    \cup { TwoFiles(FileLockMalformed, g) : g \in {FileInfected, FileManifest} }
    \cup { TwoFiles(FileLimit, FileBigDropper), TwoFiles(FileStalled, FileInfected) }

----------------------------------------------------------------------------

Init ==
    /\ fs \in Trees
    /\ config \in [include_node_modules : BOOLEAN]
    /\ phase = "idle"
    /\ on_progress = "noop"
    /\ scan_config = config
    /\ scan_root = 1
    /\ entries = <<>>
    /\ total = 0
    /\ processed = 0
    /\ pc = <<>>
    /\ current = <<>>
    /\ file_findings = <<>>
    /\ calls = <<>>
    /\ scan_progress = ScanProgressDefault
    /\ result = None
    /\ history = <<>>
    /\ stdout = None
    /\ fe_entry = [file_type |-> "file", name |-> ""]
    /\ fe_config = [include_node_modules |-> FALSE]
    /\ fe_result = None
    /\ state = "SelectFolder"
    /\ should_quit = FALSE
    /\ ui = "running"
    /\ current_path = 1
    /\ app_entries = <<>>
    /\ selected_index = 0
    /\ scroll_offset = 0
    /\ scan_results = None
    /\ scan_path = None
    /\ results_scroll = 0
    /\ selected_finding = 0
    /\ retired = {}

Next ==
    \/ CallSync
    \/ CallWithProgress
    \/ \E i \in DOMAIN pc : FetchAdd(i)
    \/ \E i \in DOMAIN pc : Notify(i)
    \/ \E i \in DOMAIN pc : Analyze(i)
    \/ Join
    \/ Unwind
    \/ PrintJson

Spec == Init /\ [][Next]_vars

\* the scan of a project that holds one file, or two
InitFiles ==
    /\ fs \in FileTrees
    /\ config = [include_node_modules |-> FALSE]
    /\ phase = "idle"
    /\ on_progress = "noop"
    /\ scan_config = config
    /\ scan_root = 1
    /\ entries = <<>>
    /\ total = 0
    /\ processed = 0
    /\ pc = <<>>
    /\ current = <<>>
    /\ file_findings = <<>>
    /\ calls = <<>>
    /\ scan_progress = ScanProgressDefault
    /\ result = None
    /\ history = <<>>
    /\ stdout = None
    /\ fe_entry = [file_type |-> "file", name |-> ""]
    /\ fe_config = [include_node_modules |-> FALSE]
    /\ fe_result = None
    /\ state = "SelectFolder"
    /\ should_quit = FALSE
    /\ ui = "running"
    /\ current_path = 1
    /\ app_entries = <<>>
    /\ selected_index = 0
    /\ scroll_offset = 0
    /\ scan_results = None
    /\ scan_path = None
    /\ results_scroll = 0
    /\ selected_finding = 0
    /\ retired = {}

SpecFiles == InitFiles /\ [][Next]_vars

----------------------------------------------------------------------------
(* The interactive mode: src/src/app.rs and the key handling of            *)
(* src/src/ui.rs.  A path is the node of fs it names; App.include_node_-   *)
(* modules is config.include_node_modules.                                 *)

\* app.rs:139
visible_height == 20

\* app.rs:262
results_visible_height == 8

KeyCodes == {"q", "Esc", "Up", "k", "Down", "j", "Enter", "Right", "l", "Left", "h",
         "Backspace", "n", "s", " ", "b", "Tab"}

\* `s` starting a scan in every state, Scanning included
handle_key_scans_in_every_state(st, key) ==
    CASE key \in {"q", "Esc"} -> "quit"
      [] key = "s" -> "start_scan"
      [] st = "SelectFolder" /\ key \in {"Up", "k"} -> "navigate_up"
      [] st = "SelectFolder" /\ key \in {"Down", "j"} -> "navigate_down"
      [] st = "SelectFolder" /\ key \in {"Enter", "Right", "l"} -> "enter_selected"
      [] st = "SelectFolder" /\ key \in {"Left", "h", "Backspace"} -> "go_parent"
      [] st = "SelectFolder" /\ key = "n" -> "toggle_node_modules"
      [] st = "SelectFolder" /\ key = " " -> "start_scan"
      [] st = "Results" /\ key \in {"Up", "k"} -> "results_up"
      [] st = "Results" /\ key \in {"Down", "j"} -> "results_down"
      [] st = "Results" /\ key \in {"b", "Backspace"} -> "back_to_folder_select"
      [] OTHER -> "nothing"

\* ui.rs:68-94: the operation a key press runs in a state
handle_key(st, key) ==
    CASE st = "SelectFolder" ->
            (CASE key \in {"q", "Esc"} -> "quit"
               [] key \in {"Up", "k"} -> "navigate_up"
               [] key \in {"Down", "j"} -> "navigate_down"
               [] key \in {"Enter", "Right", "l"} -> "enter_selected"
               [] key \in {"Left", "h", "Backspace"} -> "go_parent"
               [] key = "n" -> "toggle_node_modules"
               [] key \in {"s", " "} -> "start_scan"
               [] OTHER -> "nothing")
      [] st = "Scanning" ->
            (CASE key \in {"q", "Esc"} -> "quit"
               [] OTHER -> "nothing")
      [] st = "Results" ->
            (CASE key \in {"q", "Esc"} -> "quit"
               [] key \in {"Up", "k"} -> "results_up"
               [] key \in {"Down", "j"} -> "results_down"
               [] key \in {"b", "Backspace"} -> "back_to_folder_select"
               [] key = "s" -> "start_scan"
               [] OTHER -> "nothing")

\* ui.rs:42-63: the loop is running and a key press reaches the operation
Pressed(op) ==
    /\ ui = "running"
    /\ ~should_quit
    /\ \E key \in KeyCodes : handle_key(state, key) = op

\* name.starts_with('.')
starts_with_dot(name) == name \in {".git", ".svn", ".hg", ".env", ".github"}

\* str::to_lowercase of the names that occur
to_lowercase(name) ==
    CASE name = "Archive" -> "archive"
      [] name = "Vendor"  -> "vendor"
      [] OTHER            -> name

\* the lowercase names that occur, in the order str::cmp puts them
LowercaseSorted ==
    << "archive", "build", "dist", "home", "index.js", "lib", "node_modules",
       "notes.txt", "package-lock.json", "package.json", "pnpm-lock.yaml", "proj",
       "setup_bun.js", "src", "vendor", "yarn.lock" >>

LowercaseRank(name) ==
    CHOOSE k \in DOMAIN LowercaseSorted : LowercaseSorted[k] = to_lowercase(name)

\* sort_by(|a, b| a.name.to_lowercase().cmp(&b.name.to_lowercase())): app.rs:112-113.
\* The sort is stable.
sort_by_lowercase(nodes) ==
    LET before(k) ==
            Cardinality({j \in DOMAIN nodes :
                \/ LowercaseRank(fs[nodes[j]].name) < LowercaseRank(fs[nodes[k]].name)
                \/ /\ LowercaseRank(fs[nodes[j]].name) = LowercaseRank(fs[nodes[k]].name)
                   /\ j < k})
    IN  [i \in DOMAIN nodes |-> nodes[CHOOSE k \in DOMAIN nodes : before(k) = i - 1]]

\* Path::is_dir, which follows symlinks
is_dir(n) ==
    \/ fs[n].kind = "dir"
    \/ fs[n].kind = "symlink" /\ fs[n].target = "dir"

\* the entries refresh_entries builds for the directory cur: app.rs:75-117
refresh_entries(cur) ==
    LET parent == IF Parent(cur) # 0
                  THEN << [name |-> "..", path |-> Parent(cur), is_dir |-> TRUE] >>
                  ELSE <<>>
        listed == IF fs[cur].kind = "dir" /\ fs[cur].data.readable
                  THEN SelectSeq(Children(cur),
                                 LAMBDA n : /\ fs[n].kind # "absent"
                                            /\ ~starts_with_dot(fs[n].name))
                  ELSE <<>>
        dirs   == sort_by_lowercase(SelectSeq(listed, is_dir))
        files  == sort_by_lowercase(SelectSeq(listed, LAMBDA n : ~is_dir(n)))
        entry(n) == [name |-> fs[n].name, path |-> n, is_dir |-> is_dir(n)]
    IN  parent \o [i \in DOMAIN dirs |-> entry(dirs[i])]
               \o [i \in DOMAIN files |-> entry(files[i])]

\* app.rs:138-145
adjust_scroll(selected, offset) ==
    IF selected < offset THEN selected
    ELSE IF selected >= offset + visible_height THEN selected - visible_height + 1
    ELSE offset

\* app.rs:261-268
adjust_results_scroll(selected, scroll) ==
    IF selected < scroll THEN selected
    ELSE IF selected >= scroll + results_visible_height
    THEN selected - results_visible_height + 1
    ELSE scroll

\* usize::saturating_sub
saturating_sub(a, b) == IF a >= b THEN a - b ELSE 0

\* get_selected_path handing out the highlighted entry whatever it is
get_selected_path_of_any_entry ==
    IF selected_index < Len(app_entries)
    THEN app_entries[selected_index + 1].path
    ELSE current_path

\* app.rs:165-177.  selected_index counts from 0.
get_selected_path ==
    IF selected_index < Len(app_entries)
    THEN IF app_entries[selected_index + 1].is_dir
         THEN app_entries[selected_index + 1].path
         ELSE current_path
    ELSE current_path

\* where the latest scan thread is in app.rs:197-214
ThreadPosition ==
    IF phase = "running" THEN "scanning"
    ELSE IF phase = "panicked" THEN "panicked"
    ELSE IF scan_progress.finished THEN "finished"
    ELSE "returned"

\* the record of the earlier threads when one more is spawned
Retire == IF phase = "idle" THEN retired ELSE retired \cup {ThreadPosition}

\* scan_directory_sync run to its end on the tree as it is: the files in
\* walk order, each analysed
sync_entries(root, cfg) == Walk(root, cfg)

sync_spins(root, cfg) ==
    \E i \in DOMAIN sync_entries(root, cfg) : analyze_file_spins(sync_entries(root, cfg)[i])

sync_panics(root, cfg) ==
    \E i \in DOMAIN sync_entries(root, cfg) : analyze_file_panics(sync_entries(root, cfg)[i])

sync_results(root, cfg) ==
    LET es == sync_entries(root, cfg)
    IN  make_results([i \in DOMAIN es |-> analyze_file(es[i])], Len(es), Path(root))

\* ui.rs:71, 81, 85
Quit ==
    /\ Pressed("quit")
    /\ should_quit' = TRUE
    /\ UNCHANGED <<scanVars, filterVars, state, ui, current_path, app_entries,
                   selected_index, scroll_offset, scan_results, scan_path,
                   results_scroll, selected_finding, retired>>

\* app.rs:124-129
NavigateUp ==
    /\ Pressed("navigate_up")
    /\ IF selected_index > 0
       THEN /\ selected_index' = selected_index - 1
            /\ scroll_offset' = adjust_scroll(selected_index - 1, scroll_offset)
       ELSE UNCHANGED <<selected_index, scroll_offset>>
    /\ UNCHANGED <<scanVars, filterVars, state, should_quit, ui, current_path,
                   app_entries, scan_results, scan_path, results_scroll,
                   selected_finding, retired>>

\* app.rs:131-136
NavigateDown ==
    /\ Pressed("navigate_down")
    /\ IF selected_index < saturating_sub(Len(app_entries), 1)
       THEN /\ selected_index' = selected_index + 1
            /\ scroll_offset' = adjust_scroll(selected_index + 1, scroll_offset)
       ELSE UNCHANGED <<selected_index, scroll_offset>>
    /\ UNCHANGED <<scanVars, filterVars, state, should_quit, ui, current_path,
                   app_entries, scan_results, scan_path, results_scroll,
                   selected_finding, retired>>

\* app.rs:147-155, with the refresh_entries it calls
EnterSelected ==
    /\ Pressed("enter_selected")
    /\ IF selected_index < Len(app_entries) /\ app_entries[selected_index + 1].is_dir
       THEN /\ current_path' = app_entries[selected_index + 1].path
            /\ app_entries' = refresh_entries(app_entries[selected_index + 1].path)
            /\ selected_index' = 0
            /\ scroll_offset' = 0
       ELSE UNCHANGED <<current_path, app_entries, selected_index, scroll_offset>>
    /\ UNCHANGED <<scanVars, filterVars, state, should_quit, ui, scan_results,
                   scan_path, results_scroll, selected_finding, retired>>

\* app.rs:157-163, with the refresh_entries it calls
GoParent ==
    /\ Pressed("go_parent")
    /\ IF Parent(current_path) # 0
       THEN /\ current_path' = Parent(current_path)
            /\ app_entries' = refresh_entries(Parent(current_path))
            /\ selected_index' = 0
            /\ scroll_offset' = 0
       ELSE UNCHANGED <<current_path, app_entries, selected_index, scroll_offset>>
    /\ UNCHANGED <<scanVars, filterVars, state, should_quit, ui, scan_results,
                   scan_path, results_scroll, selected_finding, retired>>

\* app.rs:241-243
ToggleNodeModules ==
    /\ Pressed("toggle_node_modules")
    /\ config' = [include_node_modules |-> ~config.include_node_modules]
    /\ UNCHANGED <<fs, phase, on_progress, scan_config, scan_root, entries, total,
                   processed, pc, current, file_findings, calls, scan_progress,
                   result, history, stdout, filterVars, appVars>>

\* app.rs:179-215: the state is set, the progress cell reset, the thread
\* spawned; the thread's enumeration (scanner.rs:74-82) is taken with it
StartScan ==
    /\ Pressed("start_scan")
    /\ state' = "Scanning"
    /\ scan_results' = None
    /\ scan_progress' = ScanProgressDefault
    /\ scan_path' = Some(get_selected_path)
    /\ Enter(scan_thread(get_selected_path, config))
    /\ retired' = Retire
    /\ history' = <<>>
    /\ UNCHANGED <<should_quit, ui, current_path, app_entries, selected_index,
                   scroll_offset, results_scroll, selected_finding>>

\* app.rs:209-214: the scan of the thread has returned; the thread sets
\* finished and ends, and what it held is dropped
SetFinished ==
    /\ ~should_quit
    /\ phase = "returned"
    /\ on_progress = "progress"
    /\ ~scan_progress.finished
    /\ scan_progress' = [scan_progress EXCEPT !.finished = TRUE]
    /\ entries' = <<>>
    /\ total' = 0
    /\ processed' = 0
    /\ pc' = <<>>
    /\ current' = <<>>
    /\ file_findings' = <<>>
    /\ calls' = <<>>
    /\ result' = None
    /\ UNCHANGED <<fs, config, phase, on_progress, scan_config, scan_root, history,
                   stdout, filterVars, appVars>>

\* ui.rs:47-49 with app.rs:217-239: the loop polls while the state is Scanning
CheckScanComplete ==
    /\ ui = "running"
    /\ ~should_quit
    /\ state = "Scanning"
    /\ LET finished  == scan_progress.finished
           root      == unwrap_or(scan_path, current_path)
       IN  IF finished /\ scan_results = None
           THEN IF sync_spins(root, config)
                THEN /\ ui' = "blocked"
                     /\ UNCHANGED <<state, scan_results, history>>
                ELSE IF sync_panics(root, config)
                THEN /\ ui' = "panicked"
                     /\ UNCHANGED <<state, scan_results, history>>
                ELSE /\ scan_results' = Some(sync_results(root, config))
                     /\ state' = "Results"
                     /\ history' = Append(history,
                                          [on_progress |-> "noop", config |-> config,
                                           path |-> root,
                                           result |-> sync_results(root, config)])
                     /\ UNCHANGED ui
           ELSE UNCHANGED <<state, scan_results, history, ui>>
    /\ UNCHANGED <<fs, config, phase, on_progress, scan_config, scan_root, entries, total,
                   processed, pc, current, file_findings, calls, scan_progress,
                   result, stdout, filterVars, should_quit, current_path, app_entries,
                   selected_index, scroll_offset, scan_path, results_scroll,
                   selected_finding, retired>>

\* app.rs:245-250
ResultsUp ==
    /\ Pressed("results_up")
    /\ IF selected_finding > 0
       THEN /\ selected_finding' = selected_finding - 1
            /\ results_scroll' = adjust_results_scroll(selected_finding - 1, results_scroll)
       ELSE UNCHANGED <<selected_finding, results_scroll>>
    /\ UNCHANGED <<scanVars, filterVars, state, should_quit, ui, current_path,
                   app_entries, selected_index, scroll_offset, scan_results, scan_path,
                   retired>>

\* app.rs:252-259
ResultsDown ==
    /\ Pressed("results_down")
    /\ IF /\ scan_results # None
          /\ selected_finding < saturating_sub(Len(scan_results[1].findings), 1)
       THEN /\ selected_finding' = selected_finding + 1
            /\ results_scroll' = adjust_results_scroll(selected_finding + 1, results_scroll)
       ELSE UNCHANGED <<selected_finding, results_scroll>>
    /\ UNCHANGED <<scanVars, filterVars, state, should_quit, ui, current_path,
                   app_entries, selected_index, scroll_offset, scan_results, scan_path,
                   retired>>

\* back_to_folder_select leaving scan_results in place
BackToFolderSelectKeepsResults ==
    /\ Pressed("back_to_folder_select")
    /\ state' = "SelectFolder"
    /\ scan_path' = None
    /\ selected_finding' = 0
    /\ results_scroll' = 0
    /\ UNCHANGED <<scanVars, filterVars, should_quit, ui, current_path, app_entries,
                   selected_index, scroll_offset, scan_results, retired>>

\* app.rs:270-276
BackToFolderSelect ==
    /\ Pressed("back_to_folder_select")
    /\ state' = "SelectFolder"
    /\ scan_results' = None
    /\ scan_path' = None
    /\ selected_finding' = 0
    /\ results_scroll' = 0
    /\ UNCHANGED <<scanVars, filterVars, should_quit, ui, current_path, app_entries,
                   selected_index, scroll_offset, retired>>

\* what a file holds once the user has cleaned it
CleanData == Data(TRUE, 10, CleanHash, <<LineC>>, JObj(<<>>), <<>>)

\* the user cleans a source file of the tree while a scan runs or its
\* results are shown
Disinfect(n) ==
    /\ state \in {"Scanning", "Results"}
    /\ ~should_quit
    /\ fs[n].kind = "file"
    /\ fs[n].name = "index.js"
    /\ fs[n].data # CleanData
    /\ fs' = [fs EXCEPT ![n].data = CleanData]
    /\ UNCHANGED <<config, phase, on_progress, scan_config, scan_root, entries, total,
                   processed, pc, current, file_findings, calls, scan_progress,
                   result, history, stdout, filterVars, appVars>>

\* a source file with five lines of two matches each
FileMany == File("index.js",
                 Data(TRUE, 300, CleanHash, <<LineB, LineB, LineB, LineB, LineB>>,
                      ParseError, <<>>))

\* the trees the app is opened on
AppTrees ==
    { MakeTree(Dir("home"), Dir("proj"), Dir("src"), FileMany, Dir("Archive"), FileManifest),
      MakeTree(Dir("home"), Dir("proj"), Dir("node_modules"), FileInfected, Dir(".git"),
               FileInfected),
      MakeTree(Dir("home"), Dir("proj"), LockedDir("lib"), Absent, Absent, FileStalled),
      MakeTree(Dir("home"), Dir("proj"), Dir("src"), FileWide, Absent, Absent) }

\* App::new: app.rs:51-73, for the directory the app is opened on
InitApp ==
    /\ fs \in AppTrees
    /\ config = [include_node_modules |-> FALSE]
    /\ phase = "idle"
    /\ on_progress = "noop"
    /\ scan_config = config
    /\ scan_root = 1
    /\ entries = <<>>
    /\ total = 0
    /\ processed = 0
    /\ pc = <<>>
    /\ current = <<>>
    /\ file_findings = <<>>
    /\ calls = <<>>
    /\ scan_progress = ScanProgressDefault
    /\ result = None
    /\ history = <<>>
    /\ stdout = None
    /\ fe_entry = [file_type |-> "file", name |-> ""]
    /\ fe_config = [include_node_modules |-> FALSE]
    /\ fe_result = None
    /\ state = "SelectFolder"
    /\ should_quit = FALSE
    /\ ui = "running"
    /\ current_path = 2
    /\ app_entries = refresh_entries(current_path)
    /\ selected_index = 0
    /\ scroll_offset = 0
    /\ scan_results = None
    /\ scan_path = None
    /\ results_scroll = 0
    /\ selected_finding = 0
    /\ retired = {}

NextApp ==
    \/ Quit
    \/ NavigateUp
    \/ NavigateDown
    \/ EnterSelected
    \/ GoParent
    \/ ToggleNodeModules
    \/ StartScan
    \/ \E i \in DOMAIN pc : ~should_quit /\ FetchAdd(i)
    \/ \E i \in DOMAIN pc : ~should_quit /\ Notify(i)
    \/ \E i \in DOMAIN pc : ~should_quit /\ Analyze(i)
    \/ ~should_quit /\ Join
    \/ ~should_quit /\ Unwind
    \/ SetFinished
    \/ CheckScanComplete
    \/ ResultsUp
    \/ ResultsDown
    \/ BackToFolderSelect
    \/ \E n \in Nodes : Disinfect(n)

SpecApp == InitApp /\ [][NextApp]_vars

\* the workers of the pool, the scan thread and the polling loop keep running
ScanStep ==
    \/ \E i \in DOMAIN pc : ~should_quit /\ FetchAdd(i)
    \/ \E i \in DOMAIN pc : ~should_quit /\ Notify(i)
    \/ ~should_quit /\ Join
    \/ ~should_quit /\ Unwind
    \/ SetFinished

\* a step of Analyze(i), told by what it does to pc: the closure of a file
\* that was notified ends, returns, panics or stays in its loop
AnalyzeEnds(i) ==
    /\ ~should_quit
    /\ phase = "running"
    /\ pc[i] = "notified"
    /\ pc' \in {[pc EXCEPT ![i] = p] : p \in {"done", "panicked", "spinning"}}

\* a step of CheckScanComplete that finds finished set, told by what it
\* does to state and ui: the second scan returns, panics or does not return
PollEnds ==
    /\ ui = "running"
    /\ ~should_quit
    /\ state = "Scanning"
    /\ scan_progress.finished
    /\ scan_results = None
    /\ \E r \in {<<"Results", "running">>, <<"Scanning", "panicked">>,
                <<"Scanning", "blocked">>} : state' = r[1] /\ ui' = r[2]

AppFairness ==
    /\ WF_vars(ScanStep)
    /\ WF_pc(\E i \in DOMAIN pc : AnalyzeEnds(i))
    /\ WF_<<state, ui>>(PollEnds)

\* the trees of the runs followed to their end: a directory of findings next
\* to a file whose reads stall, and a directory with a line that is cut
\* inside a character
AppLiveTrees ==
    { MakeTree(Dir("home"), Dir("proj"), Dir("src"), FileMany, Absent, FileStalled),
      MakeTree(Dir("home"), Dir("proj"), Dir("src"), FileWide, Absent, Absent) }

InitAppLive ==
    /\ fs \in AppLiveTrees
    /\ config = [include_node_modules |-> FALSE]
    /\ phase = "idle"
    /\ on_progress = "noop"
    /\ scan_config = config
    /\ scan_root = 1
    /\ entries = <<>>
    /\ total = 0
    /\ processed = 0
    /\ pc = <<>>
    /\ current = <<>>
    /\ file_findings = <<>>
    /\ calls = <<>>
    /\ scan_progress = ScanProgressDefault
    /\ result = None
    /\ history = <<>>
    /\ stdout = None
    /\ fe_entry = [file_type |-> "file", name |-> ""]
    /\ fe_config = [include_node_modules |-> FALSE]
    /\ fe_result = None
    /\ state = "SelectFolder"
    /\ should_quit = FALSE
    /\ ui = "running"
    /\ current_path = 2
    /\ app_entries = refresh_entries(current_path)
    /\ selected_index = 0
    /\ scroll_offset = 0
    /\ scan_results = None
    /\ scan_path = None
    /\ results_scroll = 0
    /\ selected_finding = 0
    /\ retired = {}

SpecAppLive == InitAppLive /\ [][NextApp]_vars /\ AppFairness

----------------------------------------------------------------------------
(* The traversal policy on its own: should_scan_entry applied to one entry *)

FilterNames ==
    SKIP_DIRS \cup {"node_modules", "src", ".env", ".github", "Vendor",
                    "node_modules.bak", "package.json"}

FileTypes == {"dir", "file", "symlink"}

InitFilter ==
    /\ fe_entry \in [file_type : FileTypes, name : FilterNames]
    /\ fe_config \in [include_node_modules : BOOLEAN]
    /\ fe_result = None
    /\ fs = RootOnly(Dir("proj"))
    /\ config = [include_node_modules |-> FALSE]
    /\ phase = "idle"
    /\ on_progress = "noop"
    /\ scan_config = config
    /\ scan_root = 1
    /\ entries = <<>>
    /\ total = 0
    /\ processed = 0
    /\ pc = <<>>
    /\ current = <<>>
    /\ file_findings = <<>>
    /\ calls = <<>>
    /\ scan_progress = ScanProgressDefault
    /\ result = None
    /\ history = <<>>
    /\ stdout = None
    /\ state = "SelectFolder"
    /\ should_quit = FALSE
    /\ ui = "running"
    /\ current_path = 1
    /\ app_entries = <<>>
    /\ selected_index = 0
    /\ scroll_offset = 0
    /\ scan_results = None
    /\ scan_path = None
    /\ results_scroll = 0
    /\ selected_finding = 0
    /\ retired = {}

\* filter_entry hands the entry to the policy: scanner.rs:76
FilterEntry ==
    /\ fe_result = None
    /\ fe_result' = Some(should_scan_entry(fe_entry, fe_config))
    /\ UNCHANGED <<fe_entry, fe_config, scanVars, appVars>>

NextFilter == FilterEntry

SpecFilter == InitFilter /\ [][NextFilter]_vars

----------------------------------------------------------------------------
(* Properties *)

Range(seq) == {seq[i] : i \in DOMAIN seq}

Occurrences(seq, x) == Cardinality({i \in DOMAIN seq : seq[i] = x})

\* two sequences hold the same elements the same number of times
SameMultiset(a, b) ==
    /\ Len(a) = Len(b)
    /\ \A x \in Range(a) \cup Range(b) : Occurrences(a, x) = Occurrences(b, x)

\* the key of a finding: path, kind, severity, description, line
Key(f) == <<f.path, f.finding_type, f.severity, f.description, f.line>>

Keys(findings) == [i \in DOMAIN findings |-> Key(findings[i])]

\* the strict ancestors of a node
Ancestors(n) == {a \in Nodes : a # n /\ (a = Parent(n) \/ a = Parent(Parent(n))
                                         \/ a = Parent(Parent(Parent(n))))}

\* the node lies below a directory named node_modules
BelowNodeModules(n) ==
    \E a \in Ancestors(n) : fs[a].kind = "dir" /\ fs[a].name = "node_modules"

\* the findings of a result that name the file at node n
FindingsOf(r, n) == SelectSeq(r.findings, LAMBDA f : f.path = Path(n))

NumDone == Cardinality({i \in DOMAIN pc : pc[i] = "done"})

\* C1: in every result a scan returned, summary.total is the number of
\* findings, each severity counter is the number of findings of that
\* severity, and the four counters add up to total.
C1_SummaryMatchesFindings ==
    \A k \in DOMAIN history :
        LET r == history[k].result
            n(sev) == Cardinality({i \in DOMAIN r.findings : r.findings[i].severity = sev})
        IN  /\ r.summary.total = Len(r.findings)
            /\ r.summary.critical = n("Critical")
            /\ r.summary.high = n("High")
            /\ r.summary.medium = n("Medium")
            /\ r.summary.low = n("Low")
            /\ r.summary.critical + r.summary.high + r.summary.medium + r.summary.low
                 = r.summary.total

\* a scan has returned findings of three severities
C1_Witness ==
    /\ phase = "returned"
    /\ result[1].summary.critical > 0
    /\ result[1].summary.high > 0
    /\ result[1].summary.medium > 0

\* C2: when the root does not exist or is not a directory, the scan returns
\* an error to its caller, never an Ok result.
C2_BadRootIsAnError ==
    (phase = "returned" /\ fs[1].kind # "dir") => result[1].tag = "Err"

\* C3: on_progress is invoked once per enumerated file, each time with
\* total = M; the first arguments are distinct values of 1..M, and when the
\* scan returns they are exactly 1..M and M is scanned_files.
C3_ProgressCountsEveryFileOnce ==
    /\ \A k \in DOMAIN calls :
         /\ calls[k][1] \in 1..total
         /\ calls[k][2] = total
         /\ \E i \in DOMAIN entries : calls[k][3] = Path(entries[i])
    /\ \A j, k \in DOMAIN calls :
         j # k => calls[j][1] # calls[k][1] /\ calls[j][3] # calls[k][3]
    /\ phase = "returned" =>
         /\ Len(calls) = total
         /\ total = result[1].scanned_files
         /\ {calls[k][1] : k \in DOMAIN calls} = 1..total
         /\ {calls[k][3] : k \in DOMAIN calls} = {Path(entries[i]) : i \in DOMAIN entries}

\* a scan of three files has returned, and its first callback carried the number 3
C3_Witness ==
    /\ phase = "returned"
    /\ total = 3
    /\ calls[1][1] = 3

\* C4: the callback for a file is invoked only after the checks of that file
\* have finished, so the number it reports never exceeds the number of
\* files whose analysis is complete.
C4_ProgressReportsCompletedFiles ==
    /\ \A k \in DOMAIN calls : \A i \in DOMAIN entries :
         calls[k][3] = Path(entries[i]) => pc[i] = "done"
    /\ \A k \in DOMAIN calls : calls[k][1] <= NumDone

\* C5: a scan through scan_directory_sync and a scan with the progress
\* callback return the same result: the same multiset of findings, the same
\* summary, scanned_files and scan_path.
C5_CallbackDoesNotChangeResult ==
    \A j, k \in DOMAIN history :
        history[j].on_progress # history[k].on_progress =>
            /\ SameMultiset(history[j].result.findings, history[k].result.findings)
            /\ history[j].result.summary = history[k].result.summary
            /\ history[j].result.scanned_files = history[k].result.scanned_files
            /\ history[j].result.scan_path = history[k].result.scan_path

\* a scan with the no-op callback and a scan whose callback wrote to the
\* progress cell have both returned findings
C5_Witness ==
    /\ Len(history) = 2
    /\ history[1].on_progress = "noop"
    /\ history[2].on_progress = "progress"
    /\ scan_progress.current > 0
    /\ history[2].result.summary.total > 1

\* C6: two scans of the same tree with the same config return the same
\* multiset of findings, keyed on path, kind, severity, description and
\* line, and the same summary, whatever the order of the workers.
C6_RescanSameFindings ==
    \A j, k \in DOMAIN history :
        history[j].config = history[k].config =>
            /\ SameMultiset(Keys(history[j].result.findings), Keys(history[k].result.findings))
            /\ history[j].result.summary = history[k].result.summary

\* two scans with the same callback have returned findings of two files, the
\* second scan with its callbacks out of order
C6_Witness ==
    /\ Len(history) = 2
    /\ history[1].on_progress = history[2].on_progress
    /\ phase = "returned"
    /\ total >= 2
    /\ calls[1][1] = 2
    /\ Cardinality({f.path : f \in Range(result[1].findings)}) >= 2

\* C7: when a scan has returned, the closure of every enumerated file has
\* returned, the findings are the concatenation of the per-file lists, and
\* the summary is computed from them.
C7_ReturnsAfterEveryFile ==
    phase = "returned" =>
        /\ \A i \in DOMAIN entries : pc[i] = "done"
        /\ result[1].findings = Flatten([i \in DOMAIN entries |-> analyze_file(entries[i])])
        /\ result[1].summary.total = Len(Flatten(file_findings))
        /\ result[1].scanned_files = Len(entries)

\* a scan of three files has returned, the file analysed last holding findings
C7_Witness ==
    /\ phase = "returned"
    /\ Len(entries) = 3
    /\ \A i \in DOMAIN entries : analyze_file(entries[i]) # <<>>

\* the kinds of finding the checks that read the file produce
ReadingKinds == {"MaliciousHash", "SuspiciousPattern", "DangerousHook", "CompromisedPackage"}

\* the content check gets to the lines of the file
ContentScanned(n) ==
    /\ extension(fs[n].name) \in SCANNABLE_EXTENSIONS
    /\ CanRead(n)
    /\ fs[n].data.size <= MaxContentBytes

\* C8: a check whose read of the file fails contributes no finding, the
\* other checks of the file contribute theirs, the file is counted and
\* reported, and the scan returns Ok.
C8_ReadFailureIsLocal ==
    phase = "returned" =>
        /\ result[1].tag = "Ok"
        /\ result[1].scanned_files = Len(entries)
        /\ \A i \in DOMAIN entries :
             LET n == entries[i]
                 mine == FindingsOf(result[1], n)
             IN  /\ \E k \in DOMAIN calls : calls[k][3] = Path(n)
                 /\ ~CanRead(n) =>
                      /\ \A f \in Range(mine) : f.finding_type \notin ReadingKinds
                      /\ fs[n].name \in MALICIOUS_FILES =>
                           Occurrences([j \in DOMAIN mine |-> mine[j].finding_type],
                                       "MaliciousFile") = 1
                 /\ (CanRead(n) /\ ~CanReadToString(n)) =>
                      /\ \A f \in Range(mine) :
                           f.finding_type \notin {"DangerousHook", "CompromisedPackage"}
                      /\ fs[n].data.sha256 \in MALICIOUS_HASHES =>
                           \E f \in Range(mine) : f.finding_type = "MaliciousHash"
                      /\ ContentScanned(n) =>
                           \A k \in DOMAIN fs[n].data.lines :
                             fs[n].data.lines[k] # BadLine =>
                               \A r \in LineRules(fs[n].data.lines[k]) :
                                 \E f \in Range(mine) :
                                   /\ f.finding_type = "SuspiciousPattern"
                                   /\ f.line = Some(k)
                                   /\ f.description = <<SUSPICIOUS_PATTERNS[r].description>>

\* C8, for every way a read can fail: the analysis of a file whose read
\* fails in some check still comes to its end, with the findings of the
\* other checks, and the scan returns Ok.
C8_EveryReadFailureIsLocal ==
    /\ C8_ReadFailureIsLocal
    /\ \A i \in DOMAIN pc :
         (~CanReadAll(entries[i]) \/ ~CanReadToString(entries[i])) =>
             pc[i] \in {"queued", "counted", "notified", "done"}

\* a scan has returned that held a file no check could read, reported for
\* its name, and a manifest that could not be read as text, reported for a line
C8_Witness ==
    /\ phase = "returned"
    /\ \E i \in DOMAIN entries :
         /\ ~CanRead(entries[i])
         /\ FindingsOf(result[1], entries[i]) # <<>>
    /\ \E i \in DOMAIN entries :
         /\ CanRead(entries[i]) /\ ~CanReadToString(entries[i])
         /\ fs[entries[i]].name = "package.json"
         /\ FindingsOf(result[1], entries[i]) # <<>>

\* C9: with include_node_modules = false no file below a directory named
\* node_modules is enumerated, reported or found in; with
\* include_node_modules = true such a file is enumerated whenever a file at
\* its place below directories of other names would be.
C9_NodeModulesFilter ==
    phase # "idle" =>
        /\ ~scan_config.include_node_modules =>
             /\ \A i \in DOMAIN entries : ~BelowNodeModules(entries[i])
             /\ \A n \in Nodes : BelowNodeModules(n) /\ fs[n].kind # "absent" =>
                  /\ \A k \in DOMAIN calls : calls[k][3] # Path(n)
                  /\ result # None => FindingsOf(result[1], n) = <<>>
        /\ scan_config.include_node_modules =>
             \A n \in Nodes :
                n \in Range(entries) <=>
                    /\ is_file(n)
                    /\ \A a \in Ancestors(n) :
                         /\ fs[a].kind = "dir"
                         /\ fs[a].data.readable
                         /\ fs[a].name \notin SKIP_DIRS
        /\ total = Len(entries)

\* a scan without node_modules has returned findings although an infected
\* file lies below a node_modules directory inside the scanned tree
C9_Witness ==
    /\ phase = "returned"
    /\ ~scan_config.include_node_modules
    /\ result[1].summary.total > 0
    /\ fs[1].name # "node_modules"
    /\ \E n \in Nodes : BelowNodeModules(n) /\ fs[n] = FileInfected

\* C10: should_scan_entry rejects an entry exactly when it is a directory
\* named node_modules with include_node_modules = false, or a directory
\* named as one of the seven skipped names; every other entry is accepted.
C10_FilterPolicy ==
    fe_result # None =>
        (fe_result[1] = FALSE <=>
            /\ fe_entry.file_type = "dir"
            /\ \/ fe_entry.name = "node_modules" /\ ~fe_config.include_node_modules
               \/ fe_entry.name \in {".git", ".svn", ".hg", "vendor", "dist", "build",
                                     "__pycache__"})

\* a file that carries the name of a skipped directory has been accepted
C10_Witness ==
    /\ fe_result = Some(TRUE)
    /\ fe_entry.file_type = "file"
    /\ fe_entry.name = "dist"

\* the package names of the compromised table
TableNames == {COMPROMISED_PACKAGES[i][1] : i \in DOMAIN COMPROMISED_PACKAGES}

\* the table lists the version as an infected version of the package
Infected(name, version) ==
    \E i \in DOMAIN COMPROMISED_PACKAGES :
        /\ COMPROMISED_PACKAGES[i][1] = name
        /\ \E k \in DOMAIN COMPROMISED_PACKAGES[i][2] : COMPROMISED_PACKAGES[i][2][k] = version

\* the findings of a result of one kind that name the file at node n
KindOf(r, n, kind) ==
    SelectSeq(r.findings, LAMBDA f : f.path = Path(n) /\ f.finding_type = kind)

\* how many findings of the sequence name the package at the version
Naming(found, name, version) ==
    Cardinality({j \in DOMAIN found :
                    found[j].description[2] = name /\ found[j].description[4] = version})

\* the file at node n is a package.json that parses
ParsedManifest(n) ==
    fs[n].name = "package.json" /\ CanReadToString(n) /\ fs[n].data.json # ParseError

\* the entries of the four dependency sections of a manifest, as <<section, position>>
DeclaredEntries(json) ==
    UNION { { <<k, i>> : i \in DOMAIN get_object(json, dep_sections[k])[1] } :
            k \in {k \in DOMAIN dep_sections : get_object(json, dep_sections[k]) # None} }

\* the package an entry names, and the version it declares as the finding prints it
DeclaredName(json, e) == get_object(json, dep_sections[e[1]])[1][e[2]][1]

DeclaredVersion(json, e) ==
    LET v == get_object(json, dep_sections[e[1]])[1][e[2]][2]
    IN  IF v.t = "string" THEN v.s ELSE "unknown"

\* C11: for each entry of the four dependency sections of a package.json the
\* manifest check emits exactly one finding when the package is in the
\* compromised table and none otherwise: Critical when the declared version
\* string is an infected version of it, Medium when it is not; never both.
C11_OneFindingPerListedEntry ==
    phase = "returned" =>
        \A i \in DOMAIN entries :
            ParsedManifest(entries[i]) =>
                LET json  == fs[entries[i]].data.json
                    decl  == DeclaredEntries(json)
                    found == KindOf(result[1], entries[i], "CompromisedPackage")
                IN  /\ Len(found) = Cardinality({e \in decl : DeclaredName(json, e) \in TableNames})
                    /\ \A e \in decl :
                         Naming(found, DeclaredName(json, e), DeclaredVersion(json, e))
                           = IF DeclaredName(json, e) \in TableNames
                             THEN Cardinality({d \in decl :
                                     /\ DeclaredName(json, d) = DeclaredName(json, e)
                                     /\ DeclaredVersion(json, d) = DeclaredVersion(json, e)})
                             ELSE 0
                    /\ \A j \in DOMAIN found :
                         /\ found[j].description[2] \in TableNames
                         /\ found[j].severity
                              = IF Infected(found[j].description[2], found[j].description[4])
                                THEN "Critical" ELSE "Medium"

\* a scan has returned for a manifest that declares an infected package, a
\* listed package at another version and a package the table does not list
C11_Witness ==
    /\ phase = "returned"
    /\ \E i \in DOMAIN entries :
         /\ ParsedManifest(entries[i])
         /\ LET json  == fs[entries[i]].data.json
                found == KindOf(result[1], entries[i], "CompromisedPackage")
            IN  /\ \E j \in DOMAIN found : found[j].severity = "Critical"
                /\ \E j \in DOMAIN found : found[j].severity = "Medium"
                /\ \E e \in DeclaredEntries(json) : DeclaredName(json, e) \notin TableNames

\* the file at node n is a package-lock.json that parses
ParsedLock(n) ==
    fs[n].name = "package-lock.json" /\ CanReadToString(n) /\ fs[n].data.json # ParseError

\* the members of the packages map of a lockfile document
PackagesOf(json) == unwrap_or(get_object(json, "packages"), <<>>)

\* the packages map records package P = name at an infected version under
\* the key node_modules/P
InfectedPackagesEntry(member) ==
    /\ strip_node_modules(member[1]) # member[1]
    /\ get_str(member[2], "version") # None
    /\ Infected(strip_node_modules(member[1]), get_str(member[2], "version")[1])

\* C12: a package-lock.json whose packages map records node_modules/P at
\* version V, (P, V) in the compromised table, yields exactly one Critical
\* CompromisedPackage finding for (P, V), whatever else the lockfile holds
\* and whether or not a package.json beside it declares P.
C12_OneFindingPerLockedPackage ==
    phase = "returned" =>
        \A i \in DOMAIN entries :
            ParsedLock(entries[i]) =>
                LET members == PackagesOf(fs[entries[i]].data.json)
                    found   == KindOf(result[1], entries[i], "CompromisedPackage")
                IN  \A m \in DOMAIN members :
                        InfectedPackagesEntry(members[m]) =>
                            /\ Naming(found, strip_node_modules(members[m][1]),
                                      get_str(members[m][2], "version")[1]) = 1
                            /\ \A j \in DOMAIN found : found[j].severity = "Critical"

RECURSIVE LockedPairs(_)
\* the <<package, version>> pairs a legacy dependencies object records, at
\* every depth
LockedPairs(deps) ==
    UNION { { <<deps[i][1], unwrap_or(get_str(deps[i][2], "version"), "unknown")>> }
            \cup (IF get_object(deps[i][2], "dependencies") # None
                  THEN LockedPairs(get_object(deps[i][2], "dependencies")[1])
                  ELSE {}) : i \in DOMAIN deps }

\* the versions that occur in lockfile texts
TextVersions == {"3.0.1", "3.0.10", "^3.0.1", "4.0.0", "4.1.1", "4.1.2", "9.9.9"}

\* the <<package, version>> pairs the entries of a yarn or pnpm lockfile record
TextPairs(text) ==
    { pv \in DepNames \X TextVersions :
        \/ \E range \in TextVersions : Contains(text, yarn_entry(pv[1], range, pv[2]))
        \/ Contains(text, pnpm_entry(pv[1], pv[2])) }

\* the <<package, version>> pairs the lockfile at node n records
RecordedPairs(n) ==
    IF fs[n].name = "package-lock.json"
    THEN IF ~ParsedLock(n) THEN {}
         ELSE LET json == fs[n].data.json
              IN  { <<strip_node_modules(PackagesOf(json)[m][1]),
                      unwrap_or(get_str(PackagesOf(json)[m][2], "version"), "unknown")>> :
                    m \in DOMAIN PackagesOf(json) }
                  \cup LockedPairs(unwrap_or(get_object(json, "dependencies"), <<>>))
    ELSE TextPairs(fs[n].data.text)

\* the lockfile records the listed package, and at no infected version
RecordedClean(n, name) ==
    /\ \E pv \in RecordedPairs(n) : pv[1] = name
    /\ \A pv \in RecordedPairs(n) : pv[1] = name => ~Infected(name, pv[2])

\* C13 as stated: every finding of the lockfile check, in package-lock.json of
\* both formats, yarn.lock and pnpm-lock.yaml, is Critical, and a listed
\* package whose recorded version is no infected version produces no
\* lockfile finding at all.
C13_NoFindingForOtherVersion ==
    phase = "returned" =>
        \A i \in DOMAIN entries :
            fs[entries[i]].name \in LockfileNames =>
                LET found == KindOf(result[1], entries[i], "CompromisedPackage")
                IN  /\ \A j \in DOMAIN found : found[j].severity = "Critical"
                    /\ \A name \in TableNames :
                         RecordedClean(entries[i], name) =>
                             \A j \in DOMAIN found : found[j].description[2] # name

\* C13 amended: every finding of the lockfile check is Critical and names a
\* pair of the compromised table; in a package-lock.json of either format a
\* listed package recorded at no infected version produces no finding; in a
\* yarn.lock or pnpm-lock.yaml the pair (P, V) of the table is reported, once,
\* exactly when the text holds P@V or the pnpm form of it, whatever version
\* the entry around that text records.
C13_LockfileFindingsAreCritical ==
    phase = "returned" =>
        \A i \in DOMAIN entries :
            fs[entries[i]].name \in LockfileNames =>
                LET n     == entries[i]
                    found == KindOf(result[1], n, "CompromisedPackage")
                IN  /\ \A j \in DOMAIN found :
                         /\ found[j].severity = "Critical"
                         /\ Infected(found[j].description[2], found[j].description[4])
                    /\ fs[n].name = "package-lock.json" =>
                         \A name \in TableNames :
                             RecordedClean(n, name) =>
                                 \A j \in DOMAIN found : found[j].description[2] # name
                    /\ (fs[n].name # "package-lock.json" /\ CanReadToString(n)) =>
                         \A name \in TableNames : \A v \in TextVersions :
                             Naming(found, name, v)
                               = IF /\ Infected(name, v)
                                    /\ \/ Contains(fs[n].data.text, at_pattern(name, v))
                                       \/ Contains(fs[n].data.text, pnpm_pattern(name, v))
                                 THEN 1 ELSE 0

\* a scan has returned for a package-lock.json that records left-pad at an
\* infected and at another version: one finding, none for the other version
C13_Witness ==
    /\ phase = "returned"
    /\ \E i \in DOMAIN entries :
         /\ ParsedLock(entries[i])
         /\ <<"left-pad", "9.9.9">> \in RecordedPairs(entries[i])
         /\ <<"left-pad", "3.0.1">> \in RecordedPairs(entries[i])
         /\ Len(KindOf(result[1], entries[i], "CompromisedPackage")) = 1

\* the findings of a list that the content check produced
PatternFindings(list) == SelectSeq(list, LAMBDA f : f.finding_type = "SuspiciousPattern")

\* the <<line, rule>> pairs of the file at node n where the rule matches the
\* line, lines counted from 1 and lines that do not decode left out
MatchingPairs(n) ==
    { <<k, r>> \in (DOMAIN fs[n].data.lines) \X (DOMAIN SUSPICIOUS_PATTERNS) :
        fs[n].data.lines[k] # BadLine /\ r \in LineRules(fs[n].data.lines[k]) }

RECURSIVE TokensLen(_)
\* the number of characters of a context that format! put together
TokensLen(tokens) ==
    IF tokens = <<>> THEN 0
    ELSE (CASE Head(tokens) = "Infected versions: " -> 19
            [] Head(tokens) = ", "                  -> 2
            [] OTHER                                -> Len(StrChars(Head(tokens))))
         + TokensLen(Tail(tokens))

\* the number of characters of the context of a finding that has one
ContextLen(f) ==
    IF f.finding_type = "CompromisedPackage" THEN TokensLen(f.context[1])
    ELSE Len(f.context[1])

\* C15: the context of every finding, when present, is at most 100
\* characters long, the ellipsis of a cut text included.
C15_ContextAtMost100 ==
    \A i \in DOMAIN file_findings : \A j \in DOMAIN file_findings[i] :
        file_findings[i][j].context # None => ContextLen(file_findings[i][j]) <= 100

\* every finding a closure has handed back so far
AllFindings == UNION { Range(file_findings[i]) : i \in DOMAIN file_findings }

\* C16 as stated: a finding carries a line number and a context only when it
\* is a SuspiciousPattern; for MaliciousFile, MaliciousHash, DangerousHook
\* and CompromisedPackage findings both are absent.
C16_LineAndContextOnlyForPatterns ==
    \A f \in AllFindings :
        f.finding_type # "SuspiciousPattern" => f.line = None /\ f.context = None

\* C16 amended: only a SuspiciousPattern finding carries a line number, and
\* it always carries line and context; MaliciousFile and MaliciousHash
\* findings carry neither; DangerousHook and CompromisedPackage findings
\* carry no line but always a context.
C16_LineOnlyForPatterns ==
    \A f \in AllFindings :
        /\ f.finding_type = "SuspiciousPattern" => f.line # None /\ f.context # None
        /\ f.finding_type \in {"MaliciousFile", "MaliciousHash"} =>
             f.line = None /\ f.context = None
        /\ f.finding_type \in {"DangerousHook", "CompromisedPackage"} =>
             f.line = None /\ f.context # None
        /\ f.finding_type \in {"SuspiciousPattern", "MaliciousFile", "MaliciousHash",
                                "DangerousHook", "CompromisedPackage"}

\* a scan has returned findings of four kinds: a hash match, a content
\* match, a dangerous hook and a compromised package
C16_Witness ==
    /\ phase = "returned"
    /\ \A kind \in {"MaliciousHash", "SuspiciousPattern", "DangerousHook",
                     "CompromisedPackage"} :
         \E j \in DOMAIN result[1].findings : result[1].findings[j].finding_type = kind

\* the file at node n is a package.json or package-lock.json that can be
\* opened but is no JSON document
Unparsable(n) ==
    /\ fs[n].name \in {"package.json", "package-lock.json"}
    /\ CanRead(n)
    /\ fs[n].data.json = ParseError

\* C17: a package.json or package-lock.json that fails to parse yields no
\* DangerousHook and no CompromisedPackage finding; the scan returns Ok, the
\* other checks of the file contribute their findings, and so do the other
\* files of the scan.
C17_ParseFailureIsSilent ==
    phase = "returned" =>
        /\ result[1].tag = "Ok"
        /\ result[1].scanned_files = Len(entries)
        /\ \A i \in DOMAIN entries :
             LET n == entries[i]
             IN  /\ Unparsable(n) =>
                      /\ KindOf(result[1], n, "DangerousHook") = <<>>
                      /\ KindOf(result[1], n, "CompromisedPackage") = <<>>
                      /\ Len(KindOf(result[1], n, "SuspiciousPattern"))
                           = Cardinality(MatchingPairs(n))
                      /\ Len(KindOf(result[1], n, "MaliciousHash"))
                           = IF fs[n].data.sha256 \in MALICIOUS_HASHES THEN 1 ELSE 0
                 /\ (\E j \in DOMAIN entries : Unparsable(entries[j]) /\ j # i) =>
                      /\ (CanRead(n) /\ fs[n].data.sha256 \in MALICIOUS_HASHES) =>
                           KindOf(result[1], n, "MaliciousHash") # <<>>
                      /\ (ParsedManifest(n) /\ \E e \in DeclaredEntries(fs[n].data.json) :
                              DeclaredName(fs[n].data.json, e) \in TableNames) =>
                           KindOf(result[1], n, "CompromisedPackage") # <<>>

\* a scan has returned for a package-lock.json that does not parse, whose
\* text names an infected package and whose line matches a rule, beside a
\* file with findings of its own
C17_Witness ==
    /\ phase = "returned"
    /\ \E i, j \in DOMAIN entries :
         /\ i # j
         /\ Unparsable(entries[i])
         /\ fs[entries[i]].name = "package-lock.json"
         /\ Contains(fs[entries[i]].data.text, at_pattern("left-pad", "3.0.1"))
         /\ KindOf(result[1], entries[i], "SuspiciousPattern") # <<>>
         /\ FindingsOf(result[1], entries[j]) # <<>>

\* the positions of the entries of nested dependencies objects: the position
\* in the top object, then in the dependencies of that entry, and so on
DepPaths == UNION { [1..d -> 1..2] : d \in 1..(MaxDepth + 1) }

RECURSIVE EntryAt(_, _)
\* Some(entry) at a position, None when there is no such entry
EntryAt(deps, p) ==
    IF Head(p) \notin DOMAIN deps THEN None
    ELSE IF Len(p) = 1 THEN Some(deps[Head(p)])
    ELSE LET nested == get_object(deps[Head(p)][2], "dependencies")
         IN  IF nested = None THEN None ELSE EntryAt(nested[1], Tail(p))

\* the entry at the position records an infected version of its package
InfectedAt(deps, p) ==
    /\ EntryAt(deps, p) # None
    /\ get_str(EntryAt(deps, p)[1][2], "version") # None
    /\ Infected(EntryAt(deps, p)[1][1], get_str(EntryAt(deps, p)[1][2], "version")[1])

\* the legacy dependencies of the lockfile at node n
LegacyDeps(n) == unwrap_or(get_object(fs[n].data.json, "dependencies"), <<>>)

\* C19: in a legacy package-lock.json check_npm_v6_deps reaches every entry
\* of the dependencies object at every depth and reports, as one Critical
\* finding each, exactly the entries whose (name, version) is in the
\* compromised table, also below a parent that is or is not reported; the
\* walk ends for every document.
C19_EveryNestedEntryVisited ==
    phase = "returned" =>
        \A i \in DOMAIN entries :
            (ParsedLock(entries[i]) /\ get_object(fs[entries[i]].data.json, "packages") = None) =>
                LET deps  == LegacyDeps(entries[i])
                    found == KindOf(result[1], entries[i], "CompromisedPackage")
                    hits  == {p \in DepPaths : InfectedAt(deps, p)}
                IN  /\ pc[i] = "done"
                    /\ Len(found) = Cardinality(hits)
                    /\ \A j \in DOMAIN found : found[j].severity = "Critical"
                    /\ \A p \in hits :
                         Naming(found, EntryAt(deps, p)[1][1],
                                get_str(EntryAt(deps, p)[1][2], "version")[1])
                           = Cardinality({q \in hits :
                                /\ EntryAt(deps, q)[1][1] = EntryAt(deps, p)[1][1]
                                /\ get_str(EntryAt(deps, q)[1][2], "version")
                                     = get_str(EntryAt(deps, p)[1][2], "version")})
                    /\ \A p \in DepPaths :
                         (Len(p) = MaxDepth + 1) => EntryAt(deps, p) = None

\* a scan has returned two findings for a legacy lockfile whose infected
\* entry at depth three lies below an entry that is not infected, itself
\* below an infected one
C19_Witness ==
    /\ phase = "returned"
    /\ \E i \in DOMAIN entries :
         /\ ParsedLock(entries[i])
         /\ InfectedAt(LegacyDeps(entries[i]), <<1>>)
         /\ EntryAt(LegacyDeps(entries[i]), <<1, 1>>) # None
         /\ ~InfectedAt(LegacyDeps(entries[i]), <<1, 1>>)
         /\ InfectedAt(LegacyDeps(entries[i]), <<1, 1, 1>>)
         /\ Len(KindOf(result[1], entries[i], "CompromisedPackage")) = 2

\* the content findings of entry i are one per matching <<line, rule>> pair,
\* each with the rule's severity and description and the line's position
OnePerMatchingPair(i) ==
    LET n     == entries[i]
        found == PatternFindings(file_findings[i])
    IN  /\ Len(found) = Cardinality(MatchingPairs(n))
        /\ \A kr \in MatchingPairs(n) :
             Cardinality({j \in DOMAIN found :
                            /\ found[j].line = Some(kr[1])
                            /\ found[j].description = <<SUSPICIOUS_PATTERNS[kr[2]].description>>
                            /\ found[j].severity = SUSPICIOUS_PATTERNS[kr[2]].severity
                            /\ found[j].path = Path(n)}) = 1

\* C20: for a scannable file of at most 1,000,000 bytes the content check
\* emits one finding for every (line, rule) pair where the rule matches the
\* line and nothing else, each with the rule's severity and description and
\* the line's 1-based position; a line that does not decode is skipped and
\* shifts nothing.
C20_OneFindingPerLineAndRule ==
    \A i \in DOMAIN entries :
        (/\ pc[i] \in {"done", "panicked"}
         /\ ContentScanned(entries[i])) => OnePerMatchingPair(i)

\* the hooks of a manifest that scripts holds with a string value, as
\* positions in DANGEROUS_HOOKS
HooksPresent(json) ==
    LET scripts == JGet(json, "scripts")
    IN  IF scripts = None \/ scripts[1].t # "object" THEN {}
        ELSE {h \in DOMAIN DANGEROUS_HOOKS :
                \E m \in DOMAIN scripts[1].members :
                    /\ scripts[1].members[m][1] = DANGEROUS_HOOKS[h]
                    /\ scripts[1].members[m][2].t = "string"}

\* the script a manifest holds for a hook that is present
ScriptOf(json, h) ==
    LET members == JGet(json, "scripts")[1].members
    IN  members[CHOOSE m \in DOMAIN members : members[m][1] = DANGEROUS_HOOKS[h]][2].s

\* the <<hook, rule>> pairs of a manifest where the rule matches the hook's script
HookPairs(json) ==
    UNION { { <<h, r>> : r \in ScriptRules(ScriptOf(json, h)) } : h \in HooksPresent(json) }

\* C21: for a parsable package.json the hook check emits one Critical
\* DangerousHook finding for each pair (hook, rule) where the hook is one of
\* the four lifecycle hooks present under scripts with a string value and
\* the rule matches the script, and no DangerousHook finding otherwise; the
\* description names the hook and the context is the script text.
C21_OneFindingPerHookAndRule ==
    \A i \in DOMAIN entries :
        (pc[i] \in {"done", "panicked"} /\ ParsedManifest(entries[i])) =>
            LET json  == fs[entries[i]].data.json
                found == SelectSeq(file_findings[i],
                                   LAMBDA f : f.finding_type = "DangerousHook")
            IN  /\ Len(found) = Cardinality(HookPairs(json))
                /\ \A hr \in HookPairs(json) :
                     Cardinality({j \in DOMAIN found :
                        /\ found[j].severity = "Critical"
                        /\ found[j].description
                             = <<HOOK_PATTERNS[hr[2]], " in '", DANGEROUS_HOOKS[hr[1]], "' hook">>
                        /\ found[j].context = Some(ScriptChars(ScriptOf(json, hr[1])))
                        /\ found[j].line = None
                        /\ found[j].path = Path(entries[i])}) = 1

\* what truncate_string is claimed to return for s: s itself when it is at
\* most MaxContextLen bytes long, else a prefix of s followed by "..."
TruncatedFrom(s) ==
    IF ByteLen(s) <= MaxContextLen THEN {s}
    ELSE {SubSeq(s, 1, m) \o <<".", ".", ".">> : m \in 0..Len(s)}

\* C29: truncate_string returns normally for every input, multi-byte
\* characters included: the input unchanged when it is at most max_len
\* bytes long, otherwise a prefix of it followed by "..."; it never aborts
\* the file analysis that calls it.
C29_TruncateStringAlwaysReturns ==
    \A i \in DOMAIN entries :
        /\ pc[i] # "panicked"
        /\ pc[i] = "done" =>
             \A j \in DOMAIN file_findings[i] :
                LET f == file_findings[i][j]
                IN  /\ f.finding_type = "SuspiciousPattern" =>
                         f.context[1] \in
                           TruncatedFrom(trim(LineChars(fs[entries[i]].data.lines[f.line[1]])))
                    /\ f.finding_type = "DangerousHook" =>
                         \E h \in HooksPresent(fs[entries[i]].data.json) :
                            f.context[1] \in
                              TruncatedFrom(ScriptChars(ScriptOf(fs[entries[i]].data.json, h)))

\* C22: in interactive mode a scan the user starts runs the engine twice
\* over the same path and config, first in the background thread, then
\* synchronously in check_scan_complete once finished is seen; what
\* scan_results holds is the result of the second run.
C22_StoredResultIsTheSecondRun ==
    /\ state = "Scanning" =>
          /\ Len(history) <= 1
          /\ scan_results = None
          /\ history # <<>> => history[1].on_progress = "progress"
    /\ state = "Results" =>
          /\ Len(history) = 2
          /\ scan_progress.finished
          /\ history[1].on_progress = "progress"
          /\ history[2].on_progress = "noop"
          /\ history[1].path = history[2].path
          /\ history[1].path = scan_path[1]
          /\ history[1].config = history[2].config
          /\ scan_results = Some(history[2].result)

\* the results are shown of a scan whose two runs found different things
C22_Witness ==
    /\ state = "Results"
    /\ history[1].result.findings # history[2].result.findings
    /\ scan_results[1].findings = history[2].result.findings
    /\ history[1].config.include_node_modules

\* C23: during one background scan the progress value the observer sees
\* (ScanProgress.current) never decreases, whatever the interleaving.
C23_ProgressNeverDecreases ==
    [][(phase = "running" /\ phase' = "running" /\ on_progress = "progress")
         => scan_progress'.current >= scan_progress.current]_vars

\* C24: whenever ScanProgress.finished is true after a background scan of a
\* tree that holds files, ScanProgress.current equals ScanProgress.total.
C24_FinishedOnLastOfTotal ==
    (scan_progress.finished /\ scan_progress.total > 0)
        => scan_progress.current = scan_progress.total

\* C25: at most one scan thread is at work at any time: start_scan is
\* reachable in SelectFolder and Results only, and there the earlier thread
\* has set finished, so none of its callbacks writes into the progress cell
\* start_scan resets.
C25_OneScanThreadAtATime ==
    /\ retired \subseteq {"finished"}
    /\ Pressed("start_scan") =>
          /\ state \in {"SelectFolder", "Results"}
          /\ phase = "idle" \/ ThreadPosition = "finished"
    /\ phase = "running" => state = "Scanning"

\* a second scan has been started from the results of the first and is running
C25_Witness ==
    /\ retired = {"finished"}
    /\ phase = "running"
    /\ \E i \in DOMAIN pc : pc[i] = "notified"

\* C26: state is Results exactly when scan_results is present.
C26_ResultsIffPresent == (state = "Results") <=> (scan_results # None)

\* the results of a scan are shown, and it is not the first scan
C26_Witness ==
    /\ state = "Results"
    /\ scan_results # None
    /\ retired # {}

\* C27: in state Results selected_finding is an index into the findings
\* shown (0 when there are none) and results_scroll <= selected_finding.
C27_SelectionWithinFindings ==
    state = "Results" =>
        /\ selected_finding < Len(scan_results[1].findings)
             \/ (scan_results[1].findings = <<>> /\ selected_finding = 0)
        /\ results_scroll <= selected_finding

\* the directories listed in a directory
ListedIn(dir) == {n \in Nodes : Parent(n) = dir}

\* C28: the directory start_scan scans is the browsed directory itself or a
\* directory listed inside it; get_selected_path never leaves current_path.
C28_ScansWithinCurrentPath ==
    /\ get_selected_path \in {current_path} \cup ListedIn(current_path)
    /\ scan_path # None => scan_path[1] \in {current_path} \cup ListedIn(current_path)

\* C28 as the code has it: the directory scanned is the browsed directory,
\* a directory listed inside it, or its parent, the latter exactly when the
\* ".." entry is highlighted; it is never a plain file of the listing.
C28_ScansHighlightedDirectory ==
    /\ get_selected_path \in {current_path} \cup ListedIn(current_path)
                              \cup {Parent(current_path)}
    /\ get_selected_path = Parent(current_path) <=>
          (selected_index < Len(app_entries) /\ app_entries[selected_index + 1].name = "..")
    /\ get_selected_path # current_path => is_dir(get_selected_path)
    /\ scan_path # None =>
          /\ scan_path[1] \in {current_path} \cup ListedIn(current_path)
                                \cup {Parent(current_path)}
          /\ scan_path[1] # current_path => is_dir(scan_path[1])

\* the parent of the browsed directory is being scanned; a file is
\* highlighted and the browsed directory is the target
C28_Witness ==
    \/ /\ state = "Scanning"
       /\ scan_path = Some(Parent(current_path))
       /\ Parent(current_path) # 0
       /\ entries # <<>>
    \/ /\ state = "SelectFolder"
       /\ selected_index < Len(app_entries)
       /\ ~app_entries[selected_index + 1].is_dir
       /\ get_selected_path = current_path

\* C30: after start_scan, with the loop polling and the user not quitting,
\* the app leaves Scanning and reaches Results with scan_results set.
C30_ScanningLeadsToResults ==
    (state = "Scanning") ~> ((state = "Results" /\ scan_results # None) \/ should_quit)

\* the findings array of the printed document
PrintedFindings == JGet(stdout[1], "findings")[1].members

\* C18: in the batch output every finding's severity is written as the
\* uppercase name Severity::as_str returns: CRITICAL, HIGH, MEDIUM or LOW.
C18_SeverityPrintedUppercase ==
    stdout # None =>
        /\ Len(PrintedFindings) = Len(result[1].findings)
        /\ \A i \in DOMAIN PrintedFindings :
             /\ get_str(PrintedFindings[i], "severity")
                  = Some(as_str(result[1].findings[i].severity))
             /\ get_str(PrintedFindings[i], "severity")[1]
                  \in {"CRITICAL", "HIGH", "MEDIUM", "LOW"}

====
